---------------------------- MODULE Spec2Model ----------------------------
(***************************************************************************)
(* Multi-format document processing and multimodal extraction pipeline:    *)
(* the processor factory, the format processors, the table detector and    *)
(* its reconciliation step.  Texts are TLA+ strings; a character is a      *)
(* string of length 1.                                                     *)
(***************************************************************************)
EXTENDS Integers, Sequences, FiniteSets, TLC

(***************************************************************************)
(* Python string primitives used by the code.                              *)
(***************************************************************************)
Ch(s, i) == SubSeq(s, i, i)

Whitespace == {" ", "\n", "\t"}

Digits == {"0", "1", "2", "3", "4", "5", "6", "7", "8", "9"}

\* s * n (by halves, to keep the evaluation shallow)
RECURSIVE Rep(_, _)
Rep(s, n) ==
    IF n <= 0 THEN ""
    ELSE IF n = 1 THEN s
    ELSE Rep(s, n \div 2) \o Rep(s, n - (n \div 2))

\* str.lower(), on the letters the modelled paths use
LowerCh(c) ==
    CASE c = "P" -> "p" [] c = "D" -> "d" [] c = "F" -> "f" [] c = "O" -> "o"
      [] c = "C" -> "c" [] c = "X" -> "x" [] c = "T" -> "t" [] c = "S" -> "s"
      [] c = "V" -> "v" [] c = "M" -> "m" [] c = "B" -> "b" [] c = "E" -> "e"
      [] c = "R" -> "r" [] c = "A" -> "a" [] c = "L" -> "l" [] c = "I" -> "i"
      [] c = "Q" -> "q" [] OTHER -> c

RECURSIVE Lower(_)
Lower(s) ==
    IF Len(s) = 0 THEN ""
    ELSE IF Len(s) = 1 THEN LowerCh(s)
    ELSE Lower(SubSeq(s, 1, Len(s) \div 2)) \o Lower(SubSeq(s, Len(s) \div 2 + 1, Len(s)))

\* str.rfind(c): 0-based index of the last occurrence of character c, or -1
RFind(s, c) ==
    LET hits == {i \in 1..Len(s) : Ch(s, i) = c}
    IN  IF hits = {} THEN -1 ELSE (CHOOSE i \in hits : \A j \in hits : j <= i) - 1

\* str.strip()
LStrip(s) ==
    LET keep == {i \in 1..Len(s) : Ch(s, i) \notin Whitespace}
    IN  IF keep = {} THEN ""
        ELSE SubSeq(s, CHOOSE i \in keep : \A j \in keep : i <= j, Len(s))

RStrip(s) ==
    LET keep == {i \in 1..Len(s) : Ch(s, i) \notin Whitespace}
    IN  IF keep = {} THEN ""
        ELSE SubSeq(s, 1, CHOOSE i \in keep : \A j \in keep : j <= i)

Strip(s) == RStrip(LStrip(s))

\* sep.join(parts) (by halves)
RECURSIVE Join(_, _)
Join(sep, parts) ==
    IF Len(parts) = 0 THEN ""
    ELSE IF Len(parts) = 1 THEN parts[1]
    ELSE Join(sep, SubSeq(parts, 1, Len(parts) \div 2)) \o sep
         \o Join(sep, SubSeq(parts, Len(parts) \div 2 + 1, Len(parts)))

\* whether s[i..] starts with sep (1-based i)
StartsAt(s, i, sep) ==
    i + Len(sep) - 1 <= Len(s) /\ SubSeq(s, i, i + Len(sep) - 1) = sep

\* sep in s
Contains(s, sep) == \E i \in 1..Len(s) : StartsAt(s, i, sep)

\* any(char.isdigit() for char in s)
HasDigit(s) == \E i \in 1..Len(s) : Ch(s, i) \in Digits

(***************************************************************************)
(* pathlib: Path(p).name and Path(p).suffix                                *)
(***************************************************************************)
PathName(p) == SubSeq(p, RFind(p, "/") + 2, Len(p))

PathSuffix(p) ==
    LET name == PathName(p)
        i    == RFind(name, ".")
    IN  IF 0 < i /\ i < Len(name) - 1 THEN SubSeq(name, i + 1, Len(name)) ELSE ""

(***************************************************************************)
(* The chunking engine: RecursiveCharacterTextSplitter as the processors   *)
(* construct it (separators "\n\n", "\n", " ", "", separator kept at the   *)
(* head of the following piece, whitespace stripped from merged chunks).   *)
(***************************************************************************)
\* the separator list without its last entry, the empty separator
SeparatorsNoEmpty == <<"\n\n", "\n", " ">>

Separators == <<"\n\n", "\n", " ", "">>

\* re.split(sep, s): the pieces between leftmost non-overlapping matches
\* the scan of the positions lo..hi of s (by halves): a match that starts at
\* or after the end of the previous one closes the piece begun at st.start
RECURSIVE ReSplitScan(_, _, _, _, _)
ReSplitScan(st, s, sep, lo, hi) ==
    IF lo > hi THEN st
    ELSE IF lo = hi
    THEN IF lo >= st.start /\ StartsAt(s, lo, sep)
         THEN [pieces |-> Append(st.pieces, SubSeq(s, st.start, lo - 1)),
               start  |-> lo + Len(sep)]
         ELSE st
    ELSE CHOOSE right \in
           {ReSplitScan(left, s, sep, (lo + hi) \div 2 + 1, hi) :
              left \in {ReSplitScan(st, s, sep, lo, (lo + hi) \div 2)}} : TRUE

ReSplit(s, sep) ==
    LET st == ReSplitScan([pieces |-> <<>>, start |-> 1], s, sep, 1, Len(s))
    IN  Append(st.pieces, SubSeq(s, st.start, Len(s)))

\* _split_text_with_regex(text, sep, keep_separator=True)
SplitTextWithRegex(text, sep) ==
    LET pieces == ReSplit(text, sep)
        raw    == IF sep = ""
                  THEN [i \in 1..Len(text) |-> Ch(text, i)]
                  ELSE [i \in 1..Len(pieces) |->
                          IF i = 1 THEN pieces[1] ELSE sep \o pieces[i]]
    IN  SelectSeq(raw, LAMBDA x : x # "")

\* _join_docs without the strip of the joined text
JoinDocsNoStrip(docs, separator) == Join(separator, docs)

\* TextSplitter._join_docs: None is modelled as the empty string
JoinDocs(docs, separator) == Strip(Join(separator, docs))

\* the popping loop of TextSplitter._merge_splits,
\*     while total > overlap or (total + _len + sep > chunk_size and total > 0):
\*         total -= len(current_doc[0]) + (sep if len(current_doc) > 1 else 0)
\*         current_doc = current_doc[1:]
\* as the first number of pops after which the loop condition is false
PopWhile(cur, total, dlen, separator, chunk_size, chunk_overlap) ==
    LET TotalAfter(n) == total - Len(Join("", SubSeq(cur, 1, n)))
                               - Len(separator) * (IF n < Len(cur) THEN n ELSE Len(cur) - 1)
        Again(n) == \/ TotalAfter(n) > chunk_overlap
                    \/ /\ TotalAfter(n) + dlen
                            + (IF Len(cur) - n > 0 THEN Len(separator) ELSE 0) > chunk_size
                       /\ TotalAfter(n) > 0
        stops == {n \in 0..Len(cur) : ~Again(n)}
        pops  == CHOOSE n \in stops : \A m \in stops : n <= m
    IN  [cur |-> SubSeq(cur, pops + 1, Len(cur)), total |-> TotalAfter(pops)]

\* one iteration of the loop of TextSplitter._merge_splits, on the split d
MergeStep(st, d, separator, chunk_size, chunk_overlap) ==
    LET over == st.total + Len(d) + (IF Len(st.cur) > 0 THEN Len(separator) ELSE 0)
                    > chunk_size
        doc  == JoinDocs(st.cur, separator)
        pop  == IF over /\ Len(st.cur) > 0
                THEN PopWhile(st.cur, st.total, Len(d), separator, chunk_size, chunk_overlap)
                ELSE [cur |-> st.cur, total |-> st.total]
        cur1 == Append(pop.cur, d)
    IN  [docs  |-> IF over /\ Len(st.cur) > 0 /\ doc # "" THEN Append(st.docs, doc)
                   ELSE st.docs,
         cur   |-> cur1,
         total |-> pop.total + Len(d) + (IF Len(cur1) > 1 THEN Len(separator) ELSE 0)]

\* the iterations lo..hi of that loop (by halves)
RECURSIVE MergeFold(_, _, _, _, _, _, _)
MergeFold(st, splits, lo, hi, separator, chunk_size, chunk_overlap) ==
    IF lo > hi THEN st
    ELSE IF lo = hi THEN MergeStep(st, splits[lo], separator, chunk_size, chunk_overlap)
    ELSE CHOOSE right \in
           {MergeFold(left, splits, (lo + hi) \div 2 + 1, hi,
                      separator, chunk_size, chunk_overlap) :
              left \in {MergeFold(st, splits, lo, (lo + hi) \div 2,
                                  separator, chunk_size, chunk_overlap)}} : TRUE

\* TextSplitter._merge_splits
MergeSplits(splits, separator, chunk_size, chunk_overlap) ==
    LET st  == MergeFold([docs |-> <<>>, cur |-> <<>>, total |-> 0], splits, 1, Len(splits),
                         separator, chunk_size, chunk_overlap)
        doc == JoinDocs(st.cur, separator)
    IN  IF doc # "" THEN Append(st.docs, doc) ELSE st.docs

\* the first separator of the list found in the text ("" always is), by index
PickSeparator(text, separators) ==
    LET found == {i \in 1..Len(separators) :
                     separators[i] = "" \/ Contains(text, separators[i])}
    IN  IF found = {} THEN Len(separators)
        ELSE CHOOSE i \in found : \A j \in found : i <= j

\* RecursiveCharacterTextSplitter._split_text.  SplitStep is one iteration
\* of its loop over the splits, SplitFold the iterations lo..hi (by halves),
\* SplitBySeparator the body once the separator separators[i] is chosen.
\* A value computed once and used several times is bound by x \in {value}.
RECURSIVE SplitTextRec(_, _, _, _)
SplitStep(st, s, new_separators, chunk_size, chunk_overlap) ==
    IF Len(s) < chunk_size
    THEN [good |-> Append(st.good, s), final |-> st.final]
    ELSE [good  |-> <<>>,
          final |-> (IF st.good # <<>>
                     THEN st.final \o MergeSplits(st.good, "", chunk_size, chunk_overlap)
                     ELSE st.final)
                    \o (IF new_separators = <<>> THEN <<s>>
                        ELSE SplitTextRec(s, new_separators, chunk_size, chunk_overlap))]

RECURSIVE SplitFold(_, _, _, _, _, _, _)
SplitFold(st, splits, lo, hi, new_separators, chunk_size, chunk_overlap) ==
    IF lo > hi THEN st
    ELSE IF lo = hi THEN SplitStep(st, splits[lo], new_separators, chunk_size, chunk_overlap)
    ELSE CHOOSE right \in
           {SplitFold(left, splits, (lo + hi) \div 2 + 1, hi,
                      new_separators, chunk_size, chunk_overlap) :
              left \in {SplitFold(st, splits, lo, (lo + hi) \div 2,
                                  new_separators, chunk_size, chunk_overlap)}} : TRUE

SplitBySeparator(text, i, separators, chunk_size, chunk_overlap) ==
    LET new_separators == IF separators[i] = "" THEN <<>>
                          ELSE SubSeq(separators, i + 1, Len(separators))
    IN  CHOOSE final_chunks \in
          {IF st.good # <<>>
           THEN st.final \o MergeSplits(st.good, "", chunk_size, chunk_overlap)
           ELSE st.final :
             st \in {SplitFold([good |-> <<>>, final |-> <<>>], splits, 1, Len(splits),
                               new_separators, chunk_size, chunk_overlap) :
                       splits \in {SplitTextWithRegex(text, separators[i])}}} : TRUE

SplitTextRec(text, separators, chunk_size, chunk_overlap) ==
    CHOOSE final_chunks \in
      {SplitBySeparator(text, i, separators, chunk_size, chunk_overlap) :
         i \in {PickSeparator(text, separators)}} : TRUE

\* text_splitter.split_text(text)
SplitText(text, chunk_size, chunk_overlap) ==
    SplitTextRec(text, Separators, chunk_size, chunk_overlap)

(***************************************************************************)
(* BaseDocumentProcessor._create_documents                                 *)
(***************************************************************************)
\* the loop over chunks with the index counted from 1
ChunkDocumentsFromOne(chunks, metadata) ==
    [i \in 1..Len(chunks) |->
        [page_content |-> chunks[i],
         metadata     |-> metadata,
         chunk_id     |-> i,
         chunk_count  |-> Len(chunks)]]

\* the loop over enumerate(chunks)
ChunkDocuments(chunks, metadata) ==
    [i \in 1..Len(chunks) |->
        [page_content |-> chunks[i],
         metadata     |-> metadata,
         chunk_id     |-> i - 1,
         chunk_count  |-> Len(chunks)]]

CreateDocuments(texts, metadata, chunk_size, chunk_overlap) ==
    CHOOSE documents \in
      {ChunkDocuments(chunks, metadata) :
         chunks \in {SplitText(Join("\n", texts), chunk_size, chunk_overlap)}} : TRUE

(***************************************************************************)
(* DocumentProcessorFactory                                                *)
(***************************************************************************)
DefaultChunkSize    == 1000
DefaultChunkOverlap == 200

\* the class attribute _processors, in insertion order
_processors ==
    << <<".pdf",    "PDFProcessor">>,
       <<".docx",   "DocxProcessor">>,
       <<".pptx",   "PowerPointProcessor">>,
       <<".ppt",    "PowerPointProcessor">>,
       <<".xlsx",   "ExcelProcessor">>,
       <<".csv",    "ExcelProcessor">>,
       <<".md",     "MarkdownProcessor">>,
       <<".txt",    "EnhancedTextProcessor">>,
       <<".db",     "DatabaseProcessor">>,
       <<".sqlite", "DatabaseProcessor">> >>

RegistryKeys(reg) == {reg[i][1] : i \in 1..Len(reg)}

RegistryGet(reg, key) == reg[CHOOSE i \in 1..Len(reg) : reg[i][1] = key][2]

\* BaseDocumentProcessor.__init__ (every subclass keeps its signature)
NewProcessor(cls, chunk_size, chunk_overlap) ==
    [cls |-> cls, chunk_size |-> chunk_size, chunk_overlap |-> chunk_overlap]

Raise(exc, message) == [kind |-> "raise", exc |-> exc, message |-> message]

Return(value) == [kind |-> "return", value |-> value]

get_processor_no_lower(reg, file_path, chunk_size, chunk_overlap) ==
    LET file_ext == PathSuffix(file_path)
    IN  IF file_ext \notin RegistryKeys(reg)
        THEN Raise("ValueError", "Unsupported file type: " \o file_ext)
        ELSE Return(NewProcessor(RegistryGet(reg, file_ext), chunk_size, chunk_overlap))

get_processor(reg, file_path, chunk_size, chunk_overlap) ==
    LET file_ext == Lower(PathSuffix(file_path))
    IN  IF file_ext \notin RegistryKeys(reg)
        THEN Raise("ValueError", "Unsupported file type: " \o file_ext)
        ELSE Return(NewProcessor(RegistryGet(reg, file_ext), chunk_size, chunk_overlap))

get_supported_types(reg) == [i \in 1..Len(reg) |-> reg[i][1]]

(***************************************************************************)
(* TableProcessor: table candidates and their reconciliation               *)
(***************************************************************************)
\* confidences 0.8 and 0.6, in tenths
ConfTextBased  == 8
ConfImageBased == 6

\* the dict _detect_tables_from_blocks appends
TextCandidate(page_num, block_idx, table_data, bbox) ==
    [page |-> page_num, id |-> block_idx, type |-> "text_based",
     content |-> table_data, bbox |-> bbox, confidence |-> ConfTextBased]

\* the dict _detect_tables_from_image appends
ImageCandidate(page_num, i, bbox, table_text) ==
    [page |-> page_num, id |-> i, type |-> "image_based",
     content |-> table_text, bbox |-> bbox, confidence |-> ConfImageBased]

Max2(a, b) == IF a >= b THEN a ELSE b

Min2(a, b) == IF a <= b THEN a ELSE b

\* _tables_overlap: overlap_area > 0.5 * min(area1, area2), doubled to stay integral
TablesOverlap(table1, table2) ==
    IF table1.page # table2.page THEN FALSE
    ELSE LET bbox1 == table1.bbox
             bbox2 == table2.bbox
             x_overlap == Max2(0, Min2(bbox1[3], bbox2[3]) - Max2(bbox1[1], bbox2[1]))
             y_overlap == Max2(0, Min2(bbox1[4], bbox2[4]) - Max2(bbox1[2], bbox2[2]))
             overlap_area == x_overlap * y_overlap
             area1 == (bbox1[3] - bbox1[1]) * (bbox1[4] - bbox1[2])
             area2 == (bbox2[3] - bbox2[1]) * (bbox2[4] - bbox2[2])
         IN  2 * overlap_area > Min2(area1, area2)

\* the inner loop with the head always kept, whatever the confidences
RECURSIVE MergeInnerKeepHead(_, _, _, _, _)
MergeInnerKeepHead(tables, i, j, merged_table, used_indices) ==
    IF j > Len(tables)
    THEN [table |-> merged_table, used |-> used_indices]
    ELSE IF j \notin used_indices /\ TablesOverlap(tables[i], tables[j])
    THEN MergeInnerKeepHead(tables, i, j + 1, merged_table, used_indices \cup {j})
    ELSE MergeInnerKeepHead(tables, i, j + 1, merged_table, used_indices)

\* the inner loop of _merge_duplicate_tables: j over tables[i+1:]
RECURSIVE MergeInner(_, _, _, _, _)
MergeInner(tables, i, j, merged_table, used_indices) ==
    IF j > Len(tables)
    THEN [table |-> merged_table, used |-> used_indices]
    ELSE IF j \in used_indices
    THEN MergeInner(tables, i, j + 1, merged_table, used_indices)
    ELSE IF TablesOverlap(tables[i], tables[j])
    THEN MergeInner(tables, i, j + 1,
                    IF tables[j].confidence > merged_table.confidence
                    THEN tables[j] ELSE merged_table,
                    used_indices \cup {j})
    ELSE MergeInner(tables, i, j + 1, merged_table, used_indices)

RECURSIVE MergeOuter(_, _, _, _)
MergeOuter(tables, i, merged, used_indices) ==
    IF i > Len(tables) THEN merged
    ELSE IF i \in used_indices THEN MergeOuter(tables, i + 1, merged, used_indices)
    ELSE LET r == MergeInner(tables, i, i + 1, tables[i], used_indices \cup {i})
         IN  MergeOuter(tables, i + 1, Append(merged, r.table), r.used)

\* _merge_duplicate_tables
MergeDuplicateTables(tables) == MergeOuter(tables, 1, <<>>, {})

(***************************************************************************)
(* TableProcessor: geometry-based detection on the text blocks of a page   *)
(***************************************************************************)
\* round(pos, -1): to the nearest 10, a tie to the even multiple
Round10(pos) ==
    LET q == pos \div 10
        r == pos % 10
    IN  IF r < 5 THEN 10 * q
        ELSE IF r > 5 THEN 10 * (q + 1)
        ELSE IF q % 2 = 0 THEN 10 * q ELSE 10 * (q + 1)

\* sorted(S) for a set of numbers
Sorted(S) ==
    [k \in 1..Cardinality(S) |-> CHOOSE x \in S : Cardinality({y \in S : y < x}) = k - 1]

\* whether building line_spans raises: a span without "bbox"
SpanKeyError(block) ==
    \E l \in 1..Len(block.lines) : \E k \in 1..Len(block.lines[l]) :
        ~block.lines[l][k].has_bbox

\* line_spans: per line, the (span["bbox"][0], span["text"]) of its spans
LineSpans(block) ==
    [l \in 1..Len(block.lines) |->
        [k \in 1..Len(block.lines[l]) |->
            [pos |-> block.lines[l][k].pos, text |-> block.lines[l][k].text]]]

\* the set of rounded span positions
ColumnPositions(line_spans) ==
    UNION {{Round10(line_spans[l][k].pos) : k \in 1..Len(line_spans[l])} :
             l \in 1..Len(line_spans)}

\* _is_table_structure: multi_column_lines / len(line_spans) > 0.5
IsTableStructure(line_spans) ==
    /\ Len(line_spans) >= 2
    /\ Cardinality(ColumnPositions(line_spans)) >= 2
    /\ 2 * Cardinality({l \in 1..Len(line_spans) : Len(line_spans[l]) > 1})
          > Len(line_spans)

\* table_rows: the last span rounding to a column position fills its cell
TableRows(line_spans, sorted_positions) ==
    [l \in 1..Len(line_spans) |->
        [c \in 1..Len(sorted_positions) |->
            LET hits == {k \in 1..Len(line_spans[l]) :
                            Round10(line_spans[l][k].pos) = sorted_positions[c]}
            IN  IF hits = {} THEN ""
                ELSE Strip(line_spans[l][CHOOSE k \in hits : \A j \in hits : j <= k].text)]]

\* df.loc[:, (df != "").any(axis=0)], and None when nothing is left
DropEmptyColumns(table_rows, width) ==
    LET kept == Sorted({c \in 1..width : \E l \in 1..Len(table_rows) : table_rows[l][c] # ""})
    IN  [is_none |-> kept = <<>>,
         rows    |-> [l \in 1..Len(table_rows) |->
                        [j \in 1..Len(kept) |-> table_rows[l][kept[j]]]]]

\* _extract_table_data: a DataFrame (its rows), or None
ExtractTableData(line_spans) ==
    IF line_spans = <<>> THEN [is_none |-> TRUE, rows |-> <<>>]
    ELSE DropEmptyColumns(TableRows(line_spans, Sorted(ColumnPositions(line_spans))),
                          Cardinality(ColumnPositions(line_spans)))

\* "if table_data:": None is false; the truth value of a DataFrame raises
TruthValue(table_data) ==
    IF table_data.is_none THEN Return(FALSE)
    ELSE Raise("ValueError", "The truth value of a DataFrame is ambiguous")

\* one iteration of the loop of _detect_tables_from_blocks: the candidates
\* it appends, or the exception that leaves the method
BlockStep(block, block_idx, page_num) ==
    IF ~block.has_lines THEN Return(<<>>)
    ELSE IF Len(block.lines) < 2 THEN Return(<<>>)
    ELSE IF SpanKeyError(block) THEN Raise("KeyError", "'bbox'")
    ELSE IF ~IsTableStructure(LineSpans(block)) THEN Return(<<>>)
    ELSE LET table_data == ExtractTableData(LineSpans(block))
         IN  IF TruthValue(table_data).kind = "raise" THEN TruthValue(table_data)
             ELSE IF TruthValue(table_data).value
             THEN Return(<<TextCandidate(page_num, block_idx, table_data.rows, block.bbox)>>)
             ELSE Return(<<>>)

RECURSIVE DetectBlocksFrom(_, _, _, _)
DetectBlocksFrom(blocks, i, page_num, tables) ==
    IF i > Len(blocks) THEN Return(tables)
    ELSE LET out == BlockStep(blocks[i], i - 1, page_num)
         IN  IF out.kind = "raise" THEN out
             ELSE DetectBlocksFrom(blocks, i + 1, page_num, tables \o out.value)

\* _detect_tables_from_blocks: the list returned, or the exception raised
DetectTablesFromBlocks(blocks, page_num) == DetectBlocksFrom(blocks, 1, page_num, <<>>)

(***************************************************************************)
(* TableProcessor: image-based detection on the rasterized page            *)
(***************************************************************************)
\* contours of a smaller area are filtered out
MinRegionArea == 5000

\* len(line.split())
WordCount(line) ==
    Cardinality({i \in 1..Len(line) :
                    /\ Ch(line, i) \notin Whitespace
                    /\ (i = 1 \/ Ch(line, i - 1) \in Whitespace)})

\* _validate_table_text on the lines of text.strip().split('\n')
ValidLines(lines) ==
    /\ Len(lines) >= 2
    /\ \E l \in 1..Len(lines) : HasDigit(lines[l])
    /\ Cardinality({l \in 1..Len(lines) : WordCount(lines[l]) > 1}) > 1

ValidateTableText(text) == ValidLines(ReSplit(Strip(text), "\n"))

\* [x, y, x+w, y+h] of cv2.boundingRect
RegionBox(rect) == <<rect[1], rect[2], rect[1] + rect[3], rect[2] + rect[4]>>

\* the loop over the contours from the i-th on: the list tables, or the
\* exception of pytesseract.image_to_string on a region
RECURSIVE ContoursFrom(_, _, _, _)
ContoursFrom(contours, i, page_num, tables) ==
    IF i > Len(contours) THEN Return(tables)
    ELSE IF contours[i].area <= MinRegionArea
    THEN ContoursFrom(contours, i + 1, page_num, tables)
    ELSE IF contours[i].ocr_error # ""
    THEN Raise("TesseractError", contours[i].ocr_error)
    ELSE ContoursFrom(contours, i + 1, page_num,
                      IF ValidateTableText(contours[i].ocr_text)
                      THEN Append(tables, ImageCandidate(page_num, i - 1,
                                                         RegionBox(contours[i].rect),
                                                         contours[i].ocr_text))
                      ELSE tables)

\* the except branch returns [] whatever the loop had collected
ImageOutcome(out) == IF out.kind = "raise" THEN <<>> ELSE out.value

\* _detect_tables_from_image; an undecodable image makes cv2.cvtColor raise
DetectTablesFromImage(image, page_num) ==
    IF image.decode_error # "" THEN <<>>
    ELSE ImageOutcome(ContoursFrom(image.contours, 1, page_num, <<>>))

(***************************************************************************)
(* Format processors.  A file is a record: its path, the error opening it  *)
(* raises ("" when it opens), and the content the parsing library reports. *)
(***************************************************************************)
Opens(file) == file.open_error = ""

\* the message of a wrapping exception: f"{prefix} {file_path}: {e}"
Wrapped(prefix, file_path, cause) ==
    Raise("Exception", prefix \o " " \o file_path \o ": " \o cause)

(***************************************************************************)
(* PDFProcessor.process, one page of the loop                              *)
(***************************************************************************)
\* a page's direct text is used alone when, stripped, it is longer than this
MinTextLength == 50

\* page_content after the except branch: any selectable text
FallbackText(text) ==
    IF Strip(text) # "" THEN <<"[Text]: " \o Strip(text)>> ELSE <<>>

\* the page loop with the threshold one character higher
PageContentHigherThreshold(page) ==
    LET text == page.text
    IN  IF Strip(text) # "" /\ Len(Strip(text)) > MinTextLength + 1
        THEN [content |-> <<"[Text]: " \o Strip(text)>>, ocr_called |-> FALSE]
        ELSE IF page.raster_error # ""
        THEN [content |-> FallbackText(text), ocr_called |-> FALSE]
        ELSE IF page.ocr_error # ""
        THEN [content |-> FallbackText(text), ocr_called |-> TRUE]
        ELSE [content |->
                 (IF Strip(page.ocr_text) # ""
                  THEN <<"[OCR]: " \o Strip(page.ocr_text)>> ELSE <<>>)
                 \o FallbackText(text),
              ocr_called |-> TRUE]

\* the page loop with the recognized text appended unconditionally
PageContentKeepBlankOcr(page) ==
    LET text == page.text
    IN  IF Strip(text) # "" /\ Len(Strip(text)) > MinTextLength
        THEN [content |-> <<"[Text]: " \o Strip(text)>>, ocr_called |-> FALSE]
        ELSE IF page.raster_error # ""
        THEN [content |-> FallbackText(text), ocr_called |-> FALSE]
        ELSE IF page.ocr_error # ""
        THEN [content |-> FallbackText(text), ocr_called |-> TRUE]
        ELSE [content |-> <<"[OCR]: " \o Strip(page.ocr_text)>> \o FallbackText(text),
              ocr_called |-> TRUE]

\* the page loop with the selectable text dropped when recognition found text
PageContentOcrOnly(page) ==
    LET text == page.text
    IN  IF Strip(text) # "" /\ Len(Strip(text)) > MinTextLength
        THEN [content |-> <<"[Text]: " \o Strip(text)>>, ocr_called |-> FALSE]
        ELSE IF page.raster_error # ""
        THEN [content |-> FallbackText(text), ocr_called |-> FALSE]
        ELSE IF page.ocr_error # ""
        THEN [content |-> FallbackText(text), ocr_called |-> TRUE]
        ELSE [content |-> IF Strip(page.ocr_text) # ""
                          THEN <<"[OCR]: " \o Strip(page.ocr_text)>>
                          ELSE FallbackText(text),
              ocr_called |-> TRUE]

\* the body of the page loop after page.get_text() returned: page_content,
\* and whether pytesseract.image_to_string was called
PageContent(page) ==
    LET text == page.text
    IN  IF Strip(text) # "" /\ Len(Strip(text)) > MinTextLength
        THEN [content |-> <<"[Text]: " \o Strip(text)>>, ocr_called |-> FALSE]
        ELSE IF page.raster_error # ""
        THEN [content |-> FallbackText(text), ocr_called |-> FALSE]
        ELSE IF page.ocr_error # ""
        THEN [content |-> FallbackText(text), ocr_called |-> TRUE]
        ELSE [content |->
                 (IF Strip(page.ocr_text) # ""
                  THEN <<"[OCR]: " \o Strip(page.ocr_text)>> ELSE <<>>)
                 \o FallbackText(text),
              ocr_called |-> TRUE]

\* f"[Page {page_num + 1}]\n" + "\n".join(page_content)
PageText(page_num, page_content) ==
    "[Page " \o ToString(page_num + 1) \o "]\n" \o Join("\n", page_content)

PdfMetadata(file_path, texts) ==
    [source |-> file_path, filename |-> PathName(file_path), file_type |-> "pdf",
     page_count |-> Len(texts), processor |-> "PDFProcessor_OCR"]

(***************************************************************************)
(* DocxProcessor.process                                                   *)
(***************************************************************************)
\* the stripped non-empty cells of a row
RowText(row) ==
    LET stripped == [i \in 1..Len(row) |-> Strip(row[i])]
    IN  SelectSeq(stripped, LAMBDA c : c # "")

RECURSIVE RowsTexts(_)
RowsTexts(rows) ==
    IF rows = <<>> THEN <<>>
    ELSE (IF RowText(rows[1]) # <<>> THEN <<Join(" | ", RowText(rows[1]))>> ELSE <<>>)
         \o RowsTexts(Tail(rows))

RECURSIVE TablesTexts(_)
TablesTexts(tables) ==
    IF tables = <<>> THEN <<>>
    ELSE RowsTexts(tables[1]) \o TablesTexts(Tail(tables))

DocxTexts(file) ==
    SelectSeq(file.paragraphs, LAMBDA t : Strip(t) # "") \o TablesTexts(file.tables)

DocxMetadata(file) ==
    [source |-> file.path, filename |-> PathName(file.path), file_type |-> "docx",
     paragraph_count |-> Len(SelectSeq(file.paragraphs, LAMBDA t : Strip(t) # "")),
     table_count |-> Len(file.tables), processor |-> "DocxProcessor"]

DocxProcess(proc, file) ==
    IF ~Opens(file) THEN [texts |-> <<>>, result |-> Return(<<>>)]
    ELSE LET texts == DocxTexts(file)
         IN  [texts  |-> texts,
              result |-> IF texts = <<>> THEN Return(<<>>)
                         ELSE Return(CreateDocuments(texts, DocxMetadata(file),
                                                     proc.chunk_size, proc.chunk_overlap))]

(***************************************************************************)
(* PowerPointProcessor.process                                             *)
(***************************************************************************)
\* shape_type of a picture
PictureType == 13

\* what one shape adds to slide_text
ShapeText(shape) ==
    (IF shape.has_text /\ Strip(shape.text) # "" THEN <<Strip(shape.text)>> ELSE <<>>)
    \o (IF shape.shape_type = PictureType /\ shape.ocr_error = ""
           /\ Strip(shape.ocr_text) # ""
        THEN <<"[Image OCR]: " \o Strip(shape.ocr_text)>> ELSE <<>>)

RECURSIVE SlideText(_)
SlideText(shapes) ==
    IF shapes = <<>> THEN <<>> ELSE ShapeText(shapes[1]) \o SlideText(Tail(shapes))

RECURSIVE SlidesTexts(_, _)
SlidesTexts(slides, slide_num) ==
    IF slide_num > Len(slides) THEN <<>>
    ELSE LET slide_text == SlideText(slides[slide_num])
         IN  (IF slide_text # <<>>
              THEN <<"Slide " \o ToString(slide_num) \o ":\n" \o Join("\n", slide_text)>>
              ELSE <<>>)
             \o SlidesTexts(slides, slide_num + 1)

RECURSIVE CountImages(_)
CountImages(shapes) ==
    IF shapes = <<>> THEN 0
    ELSE (IF shapes[1].shape_type = PictureType /\ shapes[1].ocr_error = ""
             /\ Strip(shapes[1].ocr_text) # "" THEN 1 ELSE 0)
         + CountImages(Tail(shapes))

RECURSIVE SlidesImages(_)
SlidesImages(slides) ==
    IF slides = <<>> THEN 0 ELSE CountImages(slides[1]) + SlidesImages(Tail(slides))

PowerPointMetadata(file) ==
    [source |-> file.path, file_type |-> "powerpoint",
     total_slides |-> Len(file.slides), images_found |-> SlidesImages(file.slides)]

PowerPointProcess(proc, file) ==
    IF ~Opens(file)
    THEN [texts  |-> <<>>,
          result |-> Wrapped("Error processing PowerPoint file", file.path, file.open_error)]
    ELSE LET texts == SlidesTexts(file.slides, 1)
         IN  [texts  |-> texts,
              result |-> Return(CreateDocuments(texts, PowerPointMetadata(file),
                                                proc.chunk_size, proc.chunk_overlap))]

(***************************************************************************)
(* ExcelProcessor.process.  A DataFrame is its columns (name, numeric or   *)
(* not) and its rows; numeric cells are non-negative integers.             *)
(***************************************************************************)
SampleRows  == 10
MaxDumpRows == 100

DfEmpty(df) == Len(df.rows) = 0 \/ Len(df.columns) = 0

CellStr(df, c, v) == IF df.columns[c].numeric THEN ToString(v) ELSE v

ColumnNames(df) == [c \in 1..Len(df.columns) |-> df.columns[c].name]

NumericCols(df) ==
    SelectSeq([c \in 1..Len(df.columns) |-> c], LAMBDA c : df.columns[c].numeric)

\* the sum of column c over the rows lo..hi (by halves)
RECURSIVE ColSum(_, _, _, _)
ColSum(df, c, lo, hi) ==
    IF lo > hi THEN 0
    ELSE IF lo = hi THEN df.rows[lo][c]
    ELSE ColSum(df, c, lo, (lo + hi) \div 2) + ColSum(df, c, (lo + hi) \div 2 + 1, hi)

ColMin(df, c) ==
    CHOOSE v \in {df.rows[r][c] : r \in 1..Len(df.rows)} :
        \A r \in 1..Len(df.rows) : v <= df.rows[r][c]

ColMax(df, c) ==
    CHOOSE v \in {df.rows[r][c] : r \in 1..Len(df.rows)} :
        \A r \in 1..Len(df.rows) : v >= df.rows[r][c]

\* f"{x:.2f}" of the quotient total / n, rounded to the nearest hundredth
Fmt2(total, n) ==
    LET cents == (200 * total + n) \div (2 * n)
        frac  == cents % 100
    IN  ToString(cents \div 100) \o "."
        \o (IF frac < 10 THEN "0" ELSE "") \o ToString(frac)

\* str(float(v)) of an integer v
FmtFloat(v) == ToString(v) \o ".0"

StatsLine(df, c) ==
    df.columns[c].name \o ": mean=" \o Fmt2(ColSum(df, c, 1, Len(df.rows)), Len(df.rows))
    \o ", min=" \o FmtFloat(ColMin(df, c)) \o ", max=" \o FmtFloat(ColMax(df, c))

StatsLines(df) ==
    LET numeric_cols == NumericCols(df)
    IN  IF Len(numeric_cols) > 0
        THEN <<"Summary Statistics:">>
             \o [k \in 1..Len(numeric_cols) |-> StatsLine(df, numeric_cols[k])]
        ELSE <<>>

\* f"Row {idx + 1}: {col}: {val}, ..."
SampleLine(df, r) ==
    "Row " \o ToString(r) \o ": "
    \o Join(", ", [c \in 1..Len(df.columns) |->
                      df.columns[c].name \o ": " \o CellStr(df, c, df.rows[r][c])])

\* the sample taken as the first and the last five rows
SampleLinesFirstAndLast(df) ==
    LET n == Len(df.rows)
    IN  IF n <= SampleRows THEN [r \in 1..n |-> SampleLine(df, r)]
        ELSE [r \in 1..SampleRows |->
                 IF r <= SampleRows \div 2 THEN SampleLine(df, r)
                 ELSE SampleLine(df, n - SampleRows + r)]

SampleLines(df) ==
    LET sample_rows == Min2(SampleRows, Len(df.rows))
    IN  [r \in 1..sample_rows |-> SampleLine(df, r)]

DumpRow(df, r) == Join(" ", [c \in 1..Len(df.columns) |-> CellStr(df, c, df.rows[r][c])])

\* df.to_string(index=False, max_rows=max_rows): the header, then every
\* row, or the first and last max_rows/2 rows around a "..." line
ToStringLines(df, max_rows) ==
    LET n    == Len(df.rows)
        half == max_rows \div 2
    IN  <<Join(" ", ColumnNames(df))>>
        \o (IF n <= max_rows
            THEN [r \in 1..n |-> DumpRow(df, r)]
            ELSE [r \in 1..half |-> DumpRow(df, r)] \o <<"...">>
                 \o [r \in 1..half |-> DumpRow(df, n - half + r)])

DumpLines(df) == ToStringLines(df, MaxDumpRows)

SheetText(sheet) ==
    LET df == sheet.df
    IN  Join("\n",
             <<"Sheet: " \o sheet.name, "Columns: " \o Join(", ", ColumnNames(df))>>
             \o StatsLines(df)
             \o <<"\nSample Data:">> \o SampleLines(df)
             \o <<"\nFull Table Content:", Join("\n", DumpLines(df))>>)

RECURSIVE SheetsTexts(_)
SheetsTexts(sheets) ==
    IF sheets = <<>> THEN <<>>
    ELSE (IF DfEmpty(sheets[1].df) THEN <<>> ELSE <<SheetText(sheets[1])>>)
         \o SheetsTexts(Tail(sheets))

ExcelMetadata(file) ==
    LET kept == SelectSeq(file.sheets, LAMBDA sh : ~DfEmpty(sh.df))
    IN  [source |-> file.path, file_type |-> "spreadsheet",
         total_sheets |-> Len(file.sheets),
         tables_metadata |-> [k \in 1..Len(kept) |->
             [sheet_name |-> kept[k].name, rows |-> Len(kept[k].df.rows),
              columns |-> Len(kept[k].df.columns)]]]

\* pd.read_csv: a file without a header line (zero bytes, or blank lines
\* only) has no columns to parse and raises
ReadCsv(file) ==
    IF Len(file.sheets[1].df.columns) = 0
    THEN Raise("EmptyDataError", "No columns to parse from file")
    ELSE Return(file.sheets)

ExcelProcess(proc, file) ==
    IF ~Opens(file)
    THEN [texts  |-> <<>>,
          result |-> Wrapped("Error processing Excel/CSV file", file.path, file.open_error)]
    ELSE IF file.format = "csv" /\ ReadCsv(file).kind = "raise"
    THEN [texts  |-> <<>>,
          result |-> Wrapped("Error processing Excel/CSV file", file.path,
                             ReadCsv(file).message)]
    ELSE LET texts == SheetsTexts(file.sheets)
         IN  [texts  |-> texts,
              result |-> Return(CreateDocuments(texts, ExcelMetadata(file),
                                                proc.chunk_size, proc.chunk_overlap))]

(***************************************************************************)
(* MarkdownProcessor.process.  The rendered document is the sequence of    *)
(* its h1..h6, p, ul, ol and table elements, each with its text.           *)
(***************************************************************************)
HeadingNames == {"h1", "h2", "h3", "h4", "h5", "h6"}

\* the element loop: texts, current_section, section_content
RECURSIVE SectionLoop(_, _, _, _, _)
SectionLoop(elements, k, texts, current_section, section_content) ==
    LET saved == IF current_section # "" /\ section_content # <<>>
                 THEN Append(texts, current_section \o "\n" \o Join("\n", section_content))
                 ELSE texts
    IN  IF k > Len(elements) THEN saved
        ELSE IF elements[k].name \in HeadingNames
        THEN SectionLoop(elements, k + 1, saved, Strip(elements[k].text), <<>>)
        ELSE SectionLoop(elements, k + 1, texts, current_section,
                         IF Strip(elements[k].text) # ""
                         THEN Append(section_content, Strip(elements[k].text))
                         ELSE section_content)

\* soup.get_text(): the text of the rendered document
SoupText(file) == Join("\n", [k \in 1..Len(file.elements) |-> file.elements[k].text])

MarkdownTexts(file) ==
    LET texts == SectionLoop(file.elements, 1, <<>>, "", <<>>)
    IN  IF texts = <<>> THEN <<SoupText(file)>> ELSE texts

MarkdownMetadata(file) ==
    [source |-> file.path, file_type |-> "markdown",
     headings_count |->
         Len(SelectSeq(file.elements, LAMBDA el : el.name \in HeadingNames)),
     has_tables |-> \E k \in 1..Len(file.elements) : file.elements[k].name = "table",
     has_lists  |-> \E k \in 1..Len(file.elements) : file.elements[k].name \in {"ul", "ol"}]

MarkdownProcess(proc, file) ==
    IF ~Opens(file)
    THEN [texts  |-> <<>>,
          result |-> Wrapped("Error processing Markdown file", file.path, file.open_error)]
    ELSE LET texts == MarkdownTexts(file)
         IN  [texts  |-> texts,
              result |-> Return(CreateDocuments(texts, MarkdownMetadata(file),
                                                proc.chunk_size, proc.chunk_overlap))]

(***************************************************************************)
(* EnhancedTextProcessor                                                   *)
(***************************************************************************)
MinStructuredLines == 3
StructureWindow    == 10
DelimiterLines     == 5
TimestampLines     == 3
BlockLines         == 20

Delimiters == {"\t", "|", ";", ","}

\* \d{4}-\d{2}-\d{2} and \d{2}:\d{2}:\d{2}, "d" standing for a digit
DatePattern == <<"d", "d", "d", "d", "-", "d", "d", "-", "d", "d">>
TimePattern == <<"d", "d", ":", "d", "d", ":", "d", "d">>

MatchesAt(line, i, pattern) ==
    /\ i + Len(pattern) - 1 <= Len(line)
    /\ \A k \in 1..Len(pattern) :
          IF pattern[k] = "d" THEN Ch(line, i + k - 1) \in Digits
          ELSE Ch(line, i + k - 1) = pattern[k]

\* re.search(timestamp_pattern, line)
HasTimestamp(line) ==
    \E i \in 1..Len(line) : MatchesAt(line, i, DatePattern) \/ MatchesAt(line, i, TimePattern)

\* sum(1 for line in lines[:10] if delimiter in line)
DelimiterCount(window, delimiter) ==
    Cardinality({k \in 1..Len(window) : Contains(window[k], delimiter)})

\* sum(1 for line in lines[:10] if re.search(timestamp_pattern, line))
TimestampCount(window) == Cardinality({k \in 1..Len(window) : HasTimestamp(window[k])})

\* _detect_structure
DetectStructure(lines) ==
    LET window == SubSeq(lines, 1, Min2(StructureWindow, Len(lines)))
    IN  IF Len(lines) < MinStructuredLines THEN FALSE
        ELSE \/ \E delimiter \in Delimiters :
                   DelimiterCount(window, delimiter) > DelimiterLines
             \/ TimestampCount(window) > TimestampLines

\* the iteration with the flush on a blank line left out
StructuredStepKeepOnBlank(st, raw_line) ==
    LET line == Strip(raw_line)
    IN  IF line = "" THEN st
        ELSE IF Len(st.current_chunk) + 1 >= BlockLines
        THEN [chunks |-> Append(st.chunks, Join("\n", Append(st.current_chunk, line))),
              current_chunk |-> <<>>]
        ELSE [chunks |-> st.chunks, current_chunk |-> Append(st.current_chunk, line)]

\* one iteration of the loop of _process_structured_text
StructuredStep(st, raw_line) ==
    LET line == Strip(raw_line)
    IN  IF line = ""
        THEN IF st.current_chunk # <<>>
             THEN [chunks |-> Append(st.chunks, Join("\n", st.current_chunk)),
                   current_chunk |-> <<>>]
             ELSE st
        ELSE IF Len(st.current_chunk) + 1 >= BlockLines
        THEN [chunks |-> Append(st.chunks, Join("\n", Append(st.current_chunk, line))),
              current_chunk |-> <<>>]
        ELSE [chunks |-> st.chunks, current_chunk |-> Append(st.current_chunk, line)]

\* the iterations lo..hi of that loop (by halves)
RECURSIVE StructuredFold(_, _, _, _)
StructuredFold(st, lines, lo, hi) ==
    IF lo > hi THEN st
    ELSE IF lo = hi THEN StructuredStep(st, lines[lo])
    ELSE CHOOSE right \in
           {StructuredFold(left, lines, (lo + hi) \div 2 + 1, hi) :
              left \in {StructuredFold(st, lines, lo, (lo + hi) \div 2)}} : TRUE

\* _process_structured_text
ProcessStructuredText(lines) ==
    LET st == StructuredFold([chunks |-> <<>>, current_chunk |-> <<>>], lines, 1, Len(lines))
    IN  IF st.current_chunk # <<>>
        THEN Append(st.chunks, Join("\n", st.current_chunk))
        ELSE st.chunks

\* [p.strip() for p in content.split('\n\n') if p.strip()]
Paragraphs(content) ==
    LET parts == ReSplit(content, "\n\n")
    IN  SelectSeq([k \in 1..Len(parts) |-> Strip(parts[k])], LAMBDA t : t # "")

TextTexts(content) ==
    LET lines == ReSplit(content, "\n")
    IN  IF DetectStructure(lines) THEN ProcessStructuredText(lines) ELSE Paragraphs(content)

TextMetadata(file) ==
    LET lines == ReSplit(file.content, "\n")
    IN  [source |-> file.path, file_type |-> "text", encoding |-> file.encoding,
         line_count |-> Len(lines), paragraph_count |-> Len(Paragraphs(file.content)),
         is_structured |-> DetectStructure(lines)]

TextProcess(proc, file) ==
    IF ~Opens(file)
    THEN [texts  |-> <<>>,
          result |-> Wrapped("Error processing text file", file.path, file.open_error)]
    ELSE LET texts == TextTexts(file.content)
         IN  [texts  |-> texts,
              result |-> Return(CreateDocuments(texts, TextMetadata(file),
                                                proc.chunk_size, proc.chunk_overlap))]

(***************************************************************************)
(* DatabaseProcessor.  A database is what sqlite3 reports for it: the      *)
(* failure of connect if any, the failure of the sqlite_master query if    *)
(* any, and its tables, each with its columns, its rows and the failure of *)
(* a query on it if any.                                                   *)
(***************************************************************************)
SampleLimit     == 100
SampleDumpRows  == 50

UnsupportedDatabase == "Currently only SQLite databases are supported"

\* str.endswith(suffix)
EndsWith(s, suffix) ==
    Len(s) >= Len(suffix) /\ SubSeq(s, Len(s) - Len(suffix) + 1, Len(s)) = suffix

\* the test of DatabaseProcessor.process on the connection string
IsSqlitePath(connection_string) ==
    EndsWith(connection_string, ".db") \/ EndsWith(connection_string, ".sqlite")

\* [row[0] for row in cursor.fetchall()] of the sqlite_master query
TableNames(db) == [k \in 1..Len(db.tables) |-> db.tables[k].name]

\* the position of a table in the database, 0 when there is none of the name
TableIndex(db, table_name) ==
    IF \E k \in 1..Len(db.tables) : db.tables[k].name = table_name
    THEN CHOOSE k \in 1..Len(db.tables) : db.tables[k].name = table_name
    ELSE 0

\* one iteration of the table loop: PRAGMA table_info (empty for a table
\* that does not exist), SELECT * ... LIMIT 100 (which raises for it),
\* SELECT COUNT(*), then the text and the table's entry of tables_info
SqliteTable(db, table_name) ==
    LET k == TableIndex(db, table_name)
    IN  IF k = 0 THEN Raise("OperationalError", "no such table: " \o table_name)
        ELSE IF db.tables[k].query_error # ""
        THEN Raise("DatabaseError", db.tables[k].query_error)
        ELSE LET columns   == db.tables[k].columns
                 rows      == SubSeq(db.tables[k].rows, 1,
                                     Min2(SampleLimit, Len(db.tables[k].rows)))
                 row_count == Len(db.tables[k].rows)
             IN  Return(
                   [text |-> Join("\n",
                        <<"Table: " \o table_name, "Total rows: " \o ToString(row_count),
                          "Schema:">>
                        \o [c \in 1..Len(columns) |->
                               "  " \o columns[c].name \o " (" \o columns[c].type \o ")"]
                        \o (IF rows # <<>>
                            THEN <<"\nSample Data:",
                                   Join("\n", ToStringLines([columns |-> columns, rows |-> rows],
                                                            SampleDumpRows))>>
                            ELSE <<>>)),
                    info |-> [table_name |-> table_name, row_count |-> row_count,
                              column_count |-> Len(columns)]])

SqliteMetadata(db_path, tables, tables_info) ==
    [source |-> db_path, file_type |-> "database", database_type |-> "sqlite",
     total_tables |-> Len(tables), tables_info |-> tables_info]

(***************************************************************************)
(* ImageProcessor.  An embedded image is described by what fitz and PIL    *)
(* report for it: the failure of fitz.Pixmap if any, the pixmap's n and    *)
(* alpha, the size, the number of distinct colors, the failure of          *)
(* enhancement or recognition if any, and the words of image_to_data with  *)
(* their confidences.  A PIL image is its size, mode and colors.  The      *)
(* base64 field image_data of a record is left out.                        *)
(***************************************************************************)
MinImageWidth == 50

MinImageHeight == 50

OcrConfidenceThreshold == 30

TextImageLength == 50

LogoColors == 10

MaxColors == 256

\* the mode of Image.open on the PNG bytes of a pixmap with n - alpha < 4
ModeOf(n, alpha) ==
    IF n - alpha = 1 THEN (IF alpha = 1 THEN "LA" ELSE "L")
    ELSE IF alpha = 1 THEN "RGBA" ELSE "RGB"

PilImage(width, height, mode, colors) ==
    [size |-> <<width, height>>, mode |-> mode, colors |-> colors]

\* text_blocks with confidences: the stripped non-empty words whose
\* confidence exceeds the threshold
TextBlocks(words) ==
    LET kept == SelectSeq(words, LAMBDA w :
                    Strip(w.text) # "" /\ w.conf > OcrConfidenceThreshold)
    IN  [i \in 1..Len(kept) |-> [text |-> Strip(kept[i].text), conf |-> kept[i].conf]]

RECURSIVE SumConf(_)
SumConf(blocks) == IF blocks = <<>> THEN 0 ELSE blocks[1].conf + SumConf(Tail(blocks))

\* sum(confidences) / len(confidences) if confidences else 0, as a fraction
AvgConfidence(blocks) ==
    IF blocks = <<>> THEN [num |-> 0, den |-> 1]
    ELSE [num |-> SumConf(blocks), den |-> Len(blocks)]

\* len(image.getcolors(maxcolors=256)), and 0 for None (more colors than that)
GetColors(image) == IF image.colors > MaxColors THEN 0 ELSE image.colors

\* the cascade with the digit rule ahead of the length rule
ClassifyDigitFirst(image, ocr_text) ==
    IF HasDigit(ocr_text) THEN "chart_or_graph"
    ELSE IF Len(ocr_text) > TextImageLength THEN "text_image"
    ELSE IF image.mode = "1" THEN "diagram"
    ELSE IF image.mode \in {"RGB", "RGBA"} /\ GetColors(image) > 0
                /\ GetColors(image) < LogoColors
    THEN "logo_or_icon"
    ELSE "photograph"

\* _classify_image_type
ClassifyImageType(image, ocr_text) ==
    IF Len(ocr_text) > TextImageLength THEN "text_image"
    ELSE IF HasDigit(ocr_text) THEN "chart_or_graph"
    ELSE IF image.mode = "1" THEN "diagram"
    ELSE IF image.mode \in {"RGB", "RGBA"} /\ GetColors(image) > 0
                /\ GetColors(image) < LogoColors
    THEN "logo_or_icon"
    ELSE "photograph"

\* _process_image: the record in a list of one, or the empty list for None
ProcessImage(img, image, page_num, img_idx) ==
    IF img.ocr_error # "" THEN <<>>
    ELSE LET text_blocks == TextBlocks(img.words)
             ocr_text    == Join(" ", [i \in 1..Len(text_blocks) |-> text_blocks[i].text])
         IN  <<[page |-> page_num, image_id |-> img_idx, size |-> image.size,
                format |-> "PNG", mode |-> image.mode, ocr_text |-> ocr_text,
                ocr_confidence |-> AvgConfidence(text_blocks),
                image_type |-> ClassifyImageType(image, ocr_text),
                text_blocks_count |-> Len(text_blocks),
                has_text |-> Len(ocr_text) > 0]>>

\* the body of the loop over image_list with the height left unchecked
ImageStepWidthOnly(img, page_num, img_idx) ==
    IF img.pixmap_error # "" THEN [records |-> <<>>, processed |-> FALSE]
    ELSE IF img.n - img.alpha >= 4 THEN [records |-> <<>>, processed |-> FALSE]
    ELSE IF img.width < MinImageWidth THEN [records |-> <<>>, processed |-> FALSE]
    ELSE [records   |-> ProcessImage(img, PilImage(img.width, img.height,
                                                   ModeOf(img.n, img.alpha), img.colors),
                                     page_num, img_idx),
          processed |-> TRUE]

\* the body of the loop over image_list: the records it appends (none or
\* one) and whether _process_image was called
ImageStep(img, page_num, img_idx) ==
    IF img.pixmap_error # "" THEN [records |-> <<>>, processed |-> FALSE]
    ELSE IF img.n - img.alpha >= 4 THEN [records |-> <<>>, processed |-> FALSE]
    ELSE IF img.width < MinImageWidth \/ img.height < MinImageHeight
    THEN [records |-> <<>>, processed |-> FALSE]
    ELSE [records   |-> ProcessImage(img, PilImage(img.width, img.height,
                                                   ModeOf(img.n, img.alpha), img.colors),
                                     page_num, img_idx),
          processed |-> TRUE]

\* the records the loop over image_list appends, from the k-th image on
RECURSIVE PageRecords(_, _, _)
PageRecords(image_list, k, page_num) ==
    IF k > Len(image_list) THEN <<>>
    ELSE ImageStep(image_list[k], page_num, k - 1).records
            \o PageRecords(image_list, k + 1, page_num)

(***************************************************************************)
(* MultimodalDocumentProcessor                                             *)
(***************************************************************************)
\* DataFrame.to_string(index=False) of the rows of a table, without the
\* line of column labels and without padding
DataFrameToString(rows) ==
    Join("\n", [l \in 1..Len(rows) |-> Join(" ", rows[l])])

\* the text after the tag of a table block
TableText(table) ==
    IF table.type = "text_based" THEN DataFrameToString(table.content.rows)
    ELSE table.content

\* the blocks of the tables with the first table left out
TableBlocksSkipFirst(tables) ==
    [i \in 1..(Len(tables) - 1) |->
        "[TABLE on page " \o ToString(tables[i + 1].page) \o "]\n" \o TableText(tables[i + 1])]

\* the first loop of _create_enriched_content
TableBlocks(tables) ==
    [i \in 1..Len(tables) |->
        "[TABLE on page " \o ToString(tables[i].page) \o "]\n" \o TableText(tables[i])]

\* the second loop of _create_enriched_content
ImageBlocks(images) ==
    LET with_text == SelectSeq(images, LAMBDA image : image.has_text)
    IN  [i \in 1..Len(with_text) |->
            "[IMAGE on page " \o ToString(with_text[i].page) \o " - "
                \o with_text[i].image_type \o "]\n"
                \o "OCR Text: " \o with_text[i].ocr_text]

\* _create_enriched_content
CreateEnrichedContent(tables, images) == TableBlocks(tables) \o ImageBlocks(images)

\* _create_multimodal_summary; the lists built from sets are kept as sets
CreateMultimodalSummary(tables, images) ==
    [total_tables      |-> Len(tables),
     total_images      |-> Len(images),
     images_with_text  |-> Cardinality({i \in 1..Len(images) : images[i].has_text}),
     image_types       |-> {images[i].image_type : i \in 1..Len(images)},
     pages_with_tables |-> {tables[i].page : i \in 1..Len(tables)},
     pages_with_images |-> {images[i].page : i \in 1..Len(images)}]

(***************************************************************************)
(* State.  Factory calls follow one another freely; a reconciliation call *)
(* and a process call each run once from the idle state.                   *)
(***************************************************************************)
VARIABLES
    registry,     \* DocumentProcessorFactory._processors
    f_call,       \* the last factory call: its arguments and its outcome
    m_pc,         \* reconciliation driver: "idle", "once", "twice"
    m_in,         \* the candidate list handed to _merge_duplicate_tables
    m_out1,       \* its result
    m_out2,       \* the result of reconciling m_out1 again
    p_pc,         \* process call: "idle", "pages" (inside the PDF page loop), "done"
    p_proc,       \* the processor instance (class, chunk_size, chunk_overlap)
    p_file,       \* the input file
    p_page_num,   \* PDFProcessor.process: page_num
    p_texts,      \* the local list texts
    p_ocr_pages,  \* pages on which pytesseract.image_to_string was called
    p_doc_open,   \* whether the fitz document handle is open
    p_result,     \* what process returned or raised
    t_pc,         \* extract_tables_from_pdf: "idle", "blocks", "image", "done"
    t_file,       \* the PDF it was called on
    t_page_num,   \* its page_num
    t_tables,     \* its local list tables
    t_doc_open,   \* whether its fitz document handle is open
    t_result,     \* what it returned or raised
    s_pc,         \* chunking driver: "idle", "once", "twice"
    s_proc,       \* the processor instance whose _create_documents is called
    s_texts,      \* the texts of its first call
    s_out1,       \* the documents of the first call
    s_between,    \* the results of the calls made in between, on other texts
    s_out2,       \* the documents of a later call on s_texts
    i_pc,         \* extract_images_from_pdf: "idle", "pages", "done"
    i_file,       \* the PDF it was called on
    i_page_num,   \* its page_num
    i_images,     \* its local list images
    i_ocr_calls,  \* the (page_num, img_idx) on which _process_image was called
    i_doc_open,   \* whether its fitz document handle is open
    i_result,     \* what it returned or raised
    c_call,       \* the last call of _classify_image_type: arguments and result
    d_pc,         \* process_document: "idle", "done"
    d_result,     \* what it returned or raised
    g_call,       \* the last direct call of _is_table_structure or
                  \* _extract_table_data: its argument and its result
    b_pc,         \* DatabaseProcessor.process: "idle", "names", "tables", "done"
    b_proc,       \* the processor instance the factory returned for the path
    b_path,       \* the connection string
    b_db,         \* the database at that path
    b_arg,        \* the argument tables: whether given, and the names given
    b_tables,     \* the local list tables
    b_k,          \* the number of tables the loop has gone through
    b_texts,      \* the local list texts
    b_info,       \* the local list tables_info
    b_conn_open,  \* whether the sqlite3 connection is open
    b_result      \* what process returned or raised

varsF == <<registry, f_call>>
varsM == <<m_pc, m_in, m_out1, m_out2>>
varsP == <<p_pc, p_proc, p_file, p_page_num, p_texts, p_ocr_pages, p_doc_open, p_result>>
varsT == <<t_pc, t_file, t_page_num, t_tables, t_doc_open, t_result>>
varsS == <<s_pc, s_proc, s_texts, s_out1, s_between, s_out2>>
varsI == <<i_pc, i_file, i_page_num, i_images, i_ocr_calls, i_doc_open, i_result, c_call>>
varsD == <<d_pc, d_result>>
varsG == <<g_call>>
varsB == <<b_pc, b_proc, b_path, b_db, b_arg, b_tables, b_k, b_texts, b_info, b_conn_open,
           b_result>>
vars  == <<varsF, varsM, varsP, varsT, varsS, varsI, varsD, varsG, varsB>>

None == [kind |-> "none", op |-> "none"]

Init ==
    /\ registry = _processors
    /\ f_call = None
    /\ m_pc = "idle" /\ m_in = <<>> /\ m_out1 = <<>> /\ m_out2 = <<>>
    /\ p_pc = "idle" /\ p_proc = None /\ p_file = None /\ p_page_num = 0
    /\ p_texts = <<>> /\ p_ocr_pages = {} /\ p_doc_open = FALSE /\ p_result = None
    /\ t_pc = "idle" /\ t_file = None /\ t_page_num = 0 /\ t_tables = <<>>
    /\ t_doc_open = FALSE /\ t_result = None
    /\ s_pc = "idle" /\ s_proc = None /\ s_texts = <<>> /\ s_out1 = <<>>
    /\ s_between = {} /\ s_out2 = <<>>
    /\ i_pc = "idle" /\ i_file = None /\ i_page_num = 0 /\ i_images = <<>>
    /\ i_ocr_calls = {} /\ i_doc_open = FALSE /\ i_result = None /\ c_call = None
    /\ d_pc = "idle" /\ d_result = None
    /\ g_call = None
    /\ b_pc = "idle" /\ b_proc = None /\ b_path = "" /\ b_db = None /\ b_arg = None
    /\ b_tables = <<>> /\ b_k = 0 /\ b_texts = <<>> /\ b_info = <<>>
    /\ b_conn_open = FALSE /\ b_result = None

(***************************************************************************)
(* Factory calls                                                           *)
(***************************************************************************)
Dirs  == {"", "docs/", "v1.2/"}
Stems == {"file", "my.report", ""}
Exts  == RegistryKeys(_processors)
         \cup {".PDF", ".Docx", ".TXT", ".Sqlite", ".CSV", ".Md"}
         \cup {".exe", ".pd", ".pdfx", ".doc", ""}

\* chunk_size / chunk_overlap keyword arguments; the first is the default
Configs == { <<DefaultChunkSize, DefaultChunkOverlap>>, <<40, 10>> }

\* get_processor with an unsupported extension registered on the way
GetProcessorRegistering(dir, stem, ext, cfg) ==
    /\ stem # "" \/ ext # ""
    /\ f_call' = [op |-> "get_processor", dir |-> dir, stem |-> stem, ext |-> ext,
                  file_path |-> dir \o stem \o ext,
                  result |-> get_processor(registry, dir \o stem \o ext, cfg[1], cfg[2])]
    /\ registry' = IF get_processor(registry, dir \o stem \o ext, cfg[1], cfg[2]).kind = "raise"
                   THEN Append(registry, <<Lower(PathSuffix(dir \o stem \o ext)),
                                           "EnhancedTextProcessor">>)
                   ELSE registry
    /\ UNCHANGED <<varsM, varsP, varsT, varsS, varsI, varsD, varsG, varsB>>

GetProcessor(dir, stem, ext, cfg) ==
    /\ stem # "" \/ ext # ""
    /\ f_call' = [op |-> "get_processor", dir |-> dir, stem |-> stem, ext |-> ext,
                  file_path |-> dir \o stem \o ext,
                  result |-> get_processor(registry, dir \o stem \o ext, cfg[1], cfg[2])]
    /\ UNCHANGED <<registry, varsM, varsP, varsT, varsS, varsI, varsD, varsG, varsB>>

GetSupportedTypes ==
    /\ f_call' = [op |-> "get_supported_types",
                  result |-> Return(get_supported_types(registry))]
    /\ UNCHANGED <<registry, varsM, varsP, varsT, varsS, varsI, varsD, varsG, varsB>>

NextFactory ==
    \/ \E dir \in Dirs, stem \in Stems, ext \in Exts, cfg \in Configs :
          GetProcessor(dir, stem, ext, cfg)
    \/ GetSupportedTypes

SpecFactory == Init /\ [][NextFactory]_vars

(***************************************************************************)
(* Reconciliation calls on arbitrary candidate lists                       *)
(***************************************************************************)
MaxTables == 3
MaxPage   == 1

Boxes == { <<0, 0, 4, 2>>, <<1, 0, 5, 2>>, <<2, 0, 6, 2>> }

Candidates ==
    {TextCandidate(pg, 0, "grid", b) : pg \in 0..MaxPage, b \in Boxes}
    \cup {ImageCandidate(pg, 0, b, "a 1\nb 2") : pg \in 0..MaxPage, b \in Boxes}

\* lists of up to two candidates on any pages, longer lists on page 0
CandidateLists ==
    UNION {[1..n -> Candidates] : n \in 0..2}
    \cup UNION {[1..n -> {c \in Candidates : c.page = 0}] : n \in 3..MaxTables}

MergeCall(tables) ==
    /\ m_pc = "idle"
    /\ m_in' = tables
    /\ m_out1' = MergeDuplicateTables(tables)
    /\ m_out2' = <<>>
    /\ m_pc' = "once"
    /\ UNCHANGED <<varsF, varsP, varsT, varsS, varsI, varsD, varsG, varsB>>

MergeAgain ==
    /\ m_pc = "once"
    /\ m_out2' = MergeDuplicateTables(m_out1)
    /\ m_pc' = "twice"
    /\ UNCHANGED <<m_in, m_out1, varsF, varsP, varsT, varsS, varsI, varsD, varsG, varsB>>

NextMerge ==
    \/ \E tables \in CandidateLists : MergeCall(tables)
    \/ MergeAgain

SpecMerge == Init /\ [][NextMerge]_vars

(***************************************************************************)
(* Process calls: the input files                                          *)
(***************************************************************************)
MaxPages    == 2
MaxSlides   == 2
MaxSheets   == 2
MaxElements == 2

LongText   == " " \o Rep("a", MinTextLength + 1) \o "\n"
EdgeText   == Rep("b", MinTextLength)
PaddedText == Rep(" ", MinTextLength - 4) \o "short"

Page(text_error, text, raster_error, ocr_error, ocr_text) ==
    [text_error |-> text_error, text |-> text, raster_error |-> raster_error,
     ocr_error |-> ocr_error, ocr_text |-> ocr_text]

PdfPageKinds ==
    { Page("bad xref", "", "", "", ""),
      Page("", LongText, "", "", "scan 42"),
      Page("", LongText, "", "tesseract failed", ""),
      Page("", EdgeText, "", "", "scan 42"),
      Page("", EdgeText, "", "tesseract failed", ""),
      Page("", PaddedText, "", "", ""),
      Page("", PaddedText, "pixmap failed", "", ""),
      Page("", "", "", "", "scan 42"),
      Page("", "", "", "", " \n"),
      Page("", "", "", "tesseract failed", ""),
      Page("", "  ", "", "", "") }

PdfFiles ==
    {[format |-> "pdf", path |-> "docs/scan.pdf", open_error |-> "", pages |-> ps] :
        ps \in UNION {[1..n -> PdfPageKinds] : n \in 1..MaxPages}}
    \cup {[format |-> "pdf", path |-> "docs/scan.pdf",
           open_error |-> "cannot open broken document", pages |-> <<>>]}

DocxFiles ==
    {[format |-> "docx", path |-> "report.docx", open_error |-> "",
      paragraphs |-> ps, tables |-> ts] :
        ps \in {<<>>, <<"">>, <<"  ", "\t">>, <<"Intro", " body ">>},
        ts \in {<<>>, << << <<"", " ">> >> >>, << << <<"a", " b ">>, <<"">> >> >>}}
    \cup {[format |-> "docx", path |-> "report.docx",
           open_error |-> "Package not found", paragraphs |-> <<>>, tables |-> <<>>]}

Shape(has_text, text, shape_type, ocr_error, ocr_text) ==
    [has_text |-> has_text, text |-> text, shape_type |-> shape_type,
     ocr_error |-> ocr_error, ocr_text |-> ocr_text]

SlideKinds ==
    { <<>>,
      <<Shape(TRUE, "  ", 1, "", "")>>,
      <<Shape(TRUE, "Title", 1, "", "")>>,
      <<Shape(TRUE, "Title", 1, "", ""), Shape(FALSE, "", PictureType, "", "fig 1")>>,
      <<Shape(FALSE, "", PictureType, "cannot identify image file", "")>>,
      <<Shape(FALSE, "", PictureType, "", " \n")>> }

PowerPointFiles ==
    {[format |-> "pptx", path |-> "deck.pptx", open_error |-> "", slides |-> sl] :
        sl \in UNION {[1..n -> SlideKinds] : n \in 0..MaxSlides}}
    \cup {[format |-> "pptx", path |-> "deck.pptx",
           open_error |-> "File is not a zip file", slides |-> <<>>]}

Column(name, numeric) == [name |-> name, numeric |-> numeric]

DataFrames ==
    { [columns |-> <<>>, rows |-> <<>>],
      [columns |-> <<Column("a", TRUE), Column("b", FALSE)>>, rows |-> <<>>],
      [columns |-> <<Column("a", TRUE), Column("b", FALSE)>>,
       rows |-> << <<1, "x">>, <<4, "y">>, <<2, "z">> >>] }

\* a sheet of LongSheetRows rows and three numeric columns
LongSheetRows == 150

LongFrame ==
    [columns |-> <<Column("a", TRUE), Column("b", TRUE), Column("c", TRUE)>>,
     rows |-> [r \in 1..LongSheetRows |-> <<r, r % 7, LongSheetRows - r>>]]

ExcelFiles ==
    {[format |-> "xlsx", path |-> "book.xlsx", open_error |-> "",
      sheets |-> [k \in 1..Len(dfs) |-> [name |-> "S" \o ToString(k), df |-> dfs[k]]]] :
        dfs \in UNION {[1..n -> DataFrames] : n \in 1..MaxSheets} \cup {<<LongFrame>>}}
    \cup {[format |-> "csv", path |-> "book.csv", open_error |-> "",
           sheets |-> <<[name |-> "Sheet1", df |-> df]>>] : df \in DataFrames}
    \cup {[format |-> "xlsx", path |-> "book.xlsx",
           open_error |-> "File is not a zip file", sheets |-> <<>>]}

Element(name, text) == [name |-> name, text |-> text]

ElementKinds ==
    {Element("h1", "Title"), Element("h2", "Sub"), Element("p", "para"), Element("p", "  "),
     Element("ul", "item")}

MarkdownFiles ==
    {[format |-> "md", path |-> "notes.md", open_error |-> "", elements |-> els] :
        els \in UNION {[1..n -> ElementKinds] : n \in 0..MaxElements}}
    \cup {[format |-> "md", path |-> "notes.md",
           open_error |-> "No such file or directory", elements |-> <<>>]}

TextContents ==
    { "", "  \n \n", "one para", "p1\n\n \n\np2",
      "a,b\nc,d\n\ne,f\ng,h\ni,j\nk,l\nm,n",
      "12:00:01 x\n12:00:02 y\n2024-01-05 z\n12:00:04 w",
      "\t\n\t\n\t\n\t\n\t\n\t",
      Rep("a;b\n", BlockLines + 1),
      Rep(" a|b \n", BlockLines) \o " \t\n" \o Rep("c|d\n \n", 2) \o "e" }

TextFiles ==
    {[format |-> "txt", path |-> "log.txt", open_error |-> "", encoding |-> enc,
      content |-> c] : c \in TextContents, enc \in {"utf-8", "latin-1"}}
    \cup {[format |-> "txt", path |-> "log.txt", open_error |-> "No such file or directory",
           encoding |-> "", content |-> ""]}

(***************************************************************************)
(* Process calls                                                           *)
(***************************************************************************)
\* processor = DocumentProcessorFactory.get_processor(path, chunk_size, chunk_overlap)
ProcessorFor(file, cfg) == get_processor(registry, file.path, cfg[1], cfg[2]).value

\* PDFProcessor.process up to the page loop: fitz.open, texts = []
PdfOpen(file, cfg) ==
    /\ p_pc = "idle"
    /\ p_proc' = ProcessorFor(file, cfg)
    /\ p_file' = file
    /\ IF Opens(file)
       THEN /\ p_doc_open' = TRUE
            /\ p_pc' = "pages"
            /\ p_result' = None
       ELSE /\ p_doc_open' = FALSE
            /\ p_pc' = "done"
            /\ p_result' = Return(<<>>)
    /\ p_page_num' = 0
    /\ p_texts' = <<>>
    /\ p_ocr_pages' = {}
    /\ UNCHANGED <<varsF, varsM, varsT, varsS, varsI, varsD, varsG, varsB>>

\* one iteration of the page loop; an exception of page.get_text() reaches
\* the outer handler, which returns []
PdfPage ==
    /\ p_pc = "pages"
    /\ p_page_num < Len(p_file.pages)
    /\ LET page == p_file.pages[p_page_num + 1]
           pc   == PageContent(page)
       IN  IF page.text_error # ""
           THEN /\ p_pc' = "done"
                /\ p_result' = Return(<<>>)
                /\ UNCHANGED <<p_page_num, p_texts, p_ocr_pages>>
           ELSE /\ p_texts' = IF pc.content # <<>>
                              THEN Append(p_texts, PageText(p_page_num, pc.content))
                              ELSE p_texts
                /\ p_ocr_pages' = IF pc.ocr_called
                                  THEN p_ocr_pages \cup {p_page_num} ELSE p_ocr_pages
                /\ p_page_num' = p_page_num + 1
                /\ UNCHANGED <<p_pc, p_result>>
    /\ UNCHANGED <<p_proc, p_file, p_doc_open, varsF, varsM, varsT, varsS, varsI, varsD, varsG, varsB>>

\* after the loop: doc.close(), then [] or _create_documents
PdfFinish ==
    /\ p_pc = "pages"
    /\ p_page_num = Len(p_file.pages)
    /\ p_doc_open' = FALSE
    /\ p_result' = IF p_texts = <<>> THEN Return(<<>>)
                   ELSE Return(CreateDocuments(p_texts, PdfMetadata(p_file.path, p_texts),
                                               p_proc.chunk_size, p_proc.chunk_overlap))
    /\ p_pc' = "done"
    /\ UNCHANGED <<p_proc, p_file, p_page_num, p_texts, p_ocr_pages, varsF, varsM, varsT, varsS, varsI, varsD, varsG, varsB>>

\* a processor whose process runs without a page loop
Call(file, cfg, out) ==
    /\ p_pc = "idle"
    /\ p_proc' = ProcessorFor(file, cfg)
    /\ p_file' = file
    /\ p_texts' = out.texts
    /\ p_result' = out.result
    /\ p_pc' = "done"
    /\ UNCHANGED <<p_page_num, p_ocr_pages, p_doc_open, varsF, varsM, varsT, varsS, varsI, varsD, varsG, varsB>>

DocxCall(file, cfg) == Call(file, cfg, DocxProcess(ProcessorFor(file, cfg), file))

PowerPointCall(file, cfg) == Call(file, cfg, PowerPointProcess(ProcessorFor(file, cfg), file))

ExcelCall(file, cfg) == Call(file, cfg, ExcelProcess(ProcessorFor(file, cfg), file))

MarkdownCall(file, cfg) == Call(file, cfg, MarkdownProcess(ProcessorFor(file, cfg), file))

TextCall(file, cfg) == Call(file, cfg, TextProcess(ProcessorFor(file, cfg), file))

NextProcess ==
    \/ \E file \in PdfFiles, cfg \in Configs : PdfOpen(file, cfg)
    \/ PdfPage
    \/ PdfFinish
    \/ \E file \in DocxFiles, cfg \in Configs : DocxCall(file, cfg)
    \/ \E file \in PowerPointFiles, cfg \in Configs : PowerPointCall(file, cfg)
    \/ \E file \in ExcelFiles, cfg \in Configs : ExcelCall(file, cfg)
    \/ \E file \in MarkdownFiles, cfg \in Configs : MarkdownCall(file, cfg)
    \/ \E file \in TextFiles, cfg \in Configs : TextCall(file, cfg)

SpecProcess == Init /\ [][NextProcess]_vars

(***************************************************************************)
(* Factory calls and a process call interleaved                            *)
(***************************************************************************)
ConfigExts == {".pdf", ".TXT", ".exe", ""}

\* the PDFs of at most one page
ShortPdfFiles == {file \in PdfFiles : Len(file.pages) <= 1}

NextConfig ==
    \/ \E ext \in ConfigExts, cfg \in Configs : GetProcessor("docs/", "file", ext, cfg)
    \/ GetSupportedTypes
    \/ \E file \in ShortPdfFiles, cfg \in Configs : PdfOpen(file, cfg)
    \/ PdfPage
    \/ PdfFinish
    \/ \E file \in ExcelFiles, cfg \in Configs : ExcelCall(file, cfg)
    \/ \E file \in TextFiles, cfg \in Configs : TextCall(file, cfg)

SpecConfig == Init /\ [][NextConfig]_vars

(***************************************************************************)
(* extract_tables_from_pdf calls                                           *)
(***************************************************************************)
MaxTablePages == 2

Span(has_bbox, pos, text) == [has_bbox |-> has_bbox, pos |-> pos, text |-> text]

Block(has_lines, lines, bbox) == [has_lines |-> has_lines, lines |-> lines, bbox |-> bbox]

KeyErrorBlocks ==
    <<Block(TRUE, << <<Span(TRUE, 12, "a"), Span(FALSE, 0, "b")>>,
                     <<Span(TRUE, 12, "c")>> >>, <<0, 0, 9, 3>>)>>

\* an image block, a one-line block, a grid of blank spans, a grid (with a
\* tie in the rounding), a block with a span that has no bbox
BlockLists ==
    { <<>>,
      <<Block(FALSE, <<>>, <<0, 0, 9, 9>>)>>,
      <<Block(TRUE, << <<Span(TRUE, 12, "total"), Span(TRUE, 48, "7")>> >>, <<0, 0, 9, 3>>)>>,
      <<Block(TRUE, << <<Span(TRUE, 12, " "), Span(TRUE, 48, "")>>,
                       <<Span(TRUE, 12, ""), Span(TRUE, 48, " ")>> >>, <<0, 0, 9, 3>>)>>,
      <<Block(TRUE, << <<Span(TRUE, 15, "item"), Span(TRUE, 25, "qty")>>,
                       <<Span(TRUE, 15, "nut"), Span(TRUE, 51, "4")>> >>, <<0, 0, 9, 3>>)>>,
      KeyErrorBlocks }

Contour(area, rect, ocr_error, ocr_text) ==
    [area |-> area, rect |-> rect, ocr_error |-> ocr_error, ocr_text |-> ocr_text]

GridRegion  == Contour(6000, <<0, 0, 100, 60>>, "", "item qty\nnut 4\n")
OtherRegion == Contour(9000, <<0, 200, 150, 60>>, "", "name score\nann 9")
ProseRegion == Contour(7000, <<0, 400, 100, 70>>, "", "a line\nof prose")
SmallRegion == Contour(MinRegionArea, <<0, 500, 100, 50>>, "tesseract failed", "")
BadRegion   == Contour(8000, <<0, 600, 100, 80>>, "tesseract failed", "")

Image(decode_error, contours) == [decode_error |-> decode_error, contours |-> contours]

PageImages ==
    { Image("", <<>>),
      Image("cannot decode", <<GridRegion>>),
      Image("", <<GridRegion, SmallRegion>>),
      Image("", <<ProseRegion, OtherRegion>>),
      Image("", <<GridRegion, BadRegion>>),
      Image("", <<BadRegion, OtherRegion>>) }

TablePages ==
    {[blocks |-> bl, image |-> Image("", <<>>)] : bl \in BlockLists}
    \cup {[blocks |-> <<>>, image |-> im] : im \in PageImages}
    \cup {[blocks |-> KeyErrorBlocks, image |-> Image("", <<GridRegion, SmallRegion>>)]}

TablePdfFiles ==
    {[path |-> "docs/tables.pdf", pages |-> ps] :
        ps \in UNION {[1..n -> TablePages] : n \in 0..MaxTablePages}}

\* tables = [], doc = fitz.open(pdf_path)
TablesOpen(file) ==
    /\ t_pc = "idle"
    /\ t_file' = file
    /\ t_page_num' = 0
    /\ t_tables' = <<>>
    /\ t_doc_open' = TRUE
    /\ t_result' = None
    /\ t_pc' = "blocks"
    /\ UNCHANGED <<varsF, varsM, varsP, varsS, varsI, varsD, varsG, varsB>>

\* method 1 on the current page; an exception leaves extract_tables_from_pdf
TablesFromBlocks ==
    /\ t_pc = "blocks"
    /\ t_page_num < Len(t_file.pages)
    /\ LET out == DetectTablesFromBlocks(t_file.pages[t_page_num + 1].blocks, t_page_num)
       IN  IF out.kind = "raise"
           THEN /\ t_result' = out
                /\ t_pc' = "done"
                /\ UNCHANGED t_tables
           ELSE /\ t_tables' = t_tables \o out.value
                /\ t_pc' = "image"
                /\ UNCHANGED t_result
    /\ UNCHANGED <<t_file, t_page_num, t_doc_open, varsF, varsM, varsP, varsS, varsI, varsD, varsG, varsB>>

\* method 2 on the current page, then the next page
TablesFromImage ==
    /\ t_pc = "image"
    /\ t_tables' = t_tables
                   \o DetectTablesFromImage(t_file.pages[t_page_num + 1].image, t_page_num)
    /\ t_page_num' = t_page_num + 1
    /\ t_pc' = "blocks"
    /\ UNCHANGED <<t_file, t_doc_open, t_result, varsF, varsM, varsP, varsS, varsI, varsD, varsG, varsB>>

\* doc.close(), return self._merge_duplicate_tables(tables)
TablesFinish ==
    /\ t_pc = "blocks"
    /\ t_page_num = Len(t_file.pages)
    /\ t_doc_open' = FALSE
    /\ t_result' = Return(MergeDuplicateTables(t_tables))
    /\ t_pc' = "done"
    /\ UNCHANGED <<t_file, t_page_num, t_tables, varsF, varsM, varsP, varsS, varsI, varsD, varsG, varsB>>

NextTables ==
    \/ \E file \in TablePdfFiles : TablesOpen(file)
    \/ TablesFromBlocks
    \/ TablesFromImage
    \/ TablesFinish

SpecTables == Init /\ [][NextTables]_vars

(***************************************************************************)
(* extract_images_from_pdf calls, and direct calls of _classify_image_type *)
(***************************************************************************)
MaxImagePages == 2

Word(text, conf) == [text |-> text, conf |-> conf]

Embedded(pixmap_error, n, alpha, width, height, colors, ocr_error, words) ==
    [pixmap_error |-> pixmap_error, n |-> n, alpha |-> alpha, width |-> width,
     height |-> height, colors |-> colors, ocr_error |-> ocr_error, words |-> words]

TinyWide == Embedded("", 3, 0, 49, 80, 4, "", <<Word("logo", 95)>>)
TinyTall == Embedded("", 3, 0, 80, 49, 4, "", <<Word("logo", 95)>>)
EdgeLogo == Embedded("", 3, 0, 50, 50, 9, "", <<Word(" Acme ", 96), Word("", -1)>>)
Cmyk     == Embedded("", 4, 0, 200, 200, 300, "", <<Word("ink", 90)>>)
BadXref  == Embedded("bad xref", 0, 0, 0, 0, 0, "", <<>>)
OcrFails == Embedded("", 1, 0, 120, 90, 40, "tesseract failed", <<>>)
Chart    == Embedded("", 1, 0, 300, 200, 200, "",
                     <<Word("", -1), Word("Fig", 95), Word("2", 31), Word("x", 30)>>)
Photo    == Embedded("", 4, 1, 640, 480, 5000, "", <<Word("", -1), Word("~", 12)>>)
Scan     == Embedded("", 1, 0, 400, 600, 2, "",
                     <<Word(Rep("x", 30), 80), Word("page7", 60), Word(Rep("y", 20), 70)>>)

EmbeddedLists ==
    { <<>>, <<TinyWide, EdgeLogo>>, <<TinyTall>>, <<Cmyk, Chart>>, <<BadXref, Photo>>,
      <<OcrFails, Scan>>, <<Photo, Chart>> }

ImagePdfFiles ==
    {[path |-> "docs/tables.pdf", open_error |-> "", pages |-> ps] :
        ps \in UNION {[1..n -> EmbeddedLists] : n \in 0..MaxImagePages}}
    \cup {[path |-> "docs/tables.pdf", open_error |-> "cannot open broken document",
           pages |-> <<>>]}

ClassifyImages ==
    {PilImage(64, 64, mode, colors) :
        mode \in {"1", "L", "P", "RGB", "RGBA"},
        colors \in {1, LogoColors - 1, LogoColors, MaxColors, MaxColors + 1}}

ClassifyTexts ==
    { "", "Acme", "Fig 2", Rep("x", TextImageLength), Rep("x", TextImageLength - 1) \o "7",
      Rep("x", TextImageLength + 1), Rep("x", TextImageLength) \o "7" }

\* images = [], doc = fitz.open(pdf_path)
ImagesOpen(file) ==
    /\ i_pc = "idle"
    /\ i_file' = file
    /\ i_page_num' = 0
    /\ i_images' = <<>>
    /\ i_ocr_calls' = {}
    /\ IF file.open_error # ""
       THEN /\ i_result' = Raise("FileDataError", file.open_error)
            /\ i_doc_open' = FALSE
            /\ i_pc' = "done"
       ELSE /\ i_result' = None
            /\ i_doc_open' = TRUE
            /\ i_pc' = "pages"
    /\ UNCHANGED <<c_call, varsF, varsM, varsP, varsT, varsS, varsD, varsG, varsB>>

\* extract_images_from_pdf called by itself, as the one call of a behaviour
ExtractImagesCall(file) ==
    /\ t_pc = "idle"
    /\ d_pc = "idle"
    /\ c_call = None
    /\ ImagesOpen(file)

\* the page loop with the page number read from the table extractor's loop
ImagesPageSharedCounter ==
    /\ i_pc = "pages"
    /\ i_page_num < Len(i_file.pages)
    /\ LET image_list == i_file.pages[i_page_num + 1]
       IN  /\ i_images' = i_images \o PageRecords(image_list, 1, t_page_num)
           /\ i_ocr_calls' = i_ocr_calls \cup
                 {<<t_page_num, k - 1>> : k \in {j \in 1..Len(image_list) :
                                    ImageStep(image_list[j], t_page_num, j - 1).processed}}
    /\ i_page_num' = i_page_num + 1
    /\ UNCHANGED <<i_pc, i_file, i_doc_open, i_result, c_call,
                   varsF, varsM, varsP, varsT, varsS, varsD, varsG, varsB>>

\* the loop over image_list on the current page, then the next page
ImagesPage ==
    /\ i_pc = "pages"
    /\ i_page_num < Len(i_file.pages)
    /\ LET image_list == i_file.pages[i_page_num + 1]
       IN  /\ i_images' = i_images \o PageRecords(image_list, 1, i_page_num)
           /\ i_ocr_calls' = i_ocr_calls \cup
                 {<<i_page_num, k - 1>> : k \in {j \in 1..Len(image_list) :
                                    ImageStep(image_list[j], i_page_num, j - 1).processed}}
    /\ i_page_num' = i_page_num + 1
    /\ UNCHANGED <<i_pc, i_file, i_doc_open, i_result, c_call,
                   varsF, varsM, varsP, varsT, varsS, varsD, varsG, varsB>>

\* doc.close(), return images
ImagesFinish ==
    /\ i_pc = "pages"
    /\ i_page_num = Len(i_file.pages)
    /\ i_doc_open' = FALSE
    /\ i_result' = Return(i_images)
    /\ i_pc' = "done"
    /\ UNCHANGED <<i_file, i_page_num, i_images, i_ocr_calls, c_call,
                   varsF, varsM, varsP, varsT, varsS, varsD, varsG, varsB>>

\* _classify_image_type(image, ocr_text) called on any PIL image, as the
\* one call of a behaviour
ClassifyCall(image, ocr_text) ==
    /\ i_pc = "idle"
    /\ c_call = None
    /\ c_call' = [image |-> image, ocr_text |-> ocr_text,
                  result |-> ClassifyImageType(image, ocr_text)]
    /\ UNCHANGED <<i_pc, i_file, i_page_num, i_images, i_ocr_calls, i_doc_open, i_result,
                   varsF, varsM, varsP, varsT, varsS, varsD, varsG, varsB>>

NextImages ==
    \/ \E file \in ImagePdfFiles : ExtractImagesCall(file)
    \/ ImagesPage
    \/ ImagesFinish
    \/ \E image \in ClassifyImages, ocr_text \in ClassifyTexts : ClassifyCall(image, ocr_text)

SpecImages == Init /\ [][NextImages]_vars

(***************************************************************************)
(* process_document calls: the extension check, then for a PDF the table   *)
(* extraction, the image extraction on the same file, and the result       *)
(***************************************************************************)
DocumentPaths == {"notes.txt", "slides.PPTX", "README"}

MultimodalLists == { <<TinyWide, EdgeLogo>>, <<Photo, Chart>> }

\* process_document on a path that is no PDF
ProcessUnsupported(file_path) ==
    /\ d_pc = "idle"
    /\ t_pc = "idle"
    /\ i_pc = "idle"
    /\ Lower(PathSuffix(file_path)) # ".pdf"
    /\ d_result' = Raise("ValueError", "Multimodal processing not yet supported for "
                                          \o Lower(PathSuffix(file_path)))
    /\ d_pc' = "done"
    /\ UNCHANGED <<varsF, varsM, varsP, varsT, varsS, varsI, varsG, varsB>>

\* _process_pdf after extract_tables_from_pdf returned: the image
\* extraction starts on the same file
ProcessPdfImages(file) ==
    /\ d_pc = "idle"
    /\ t_pc = "done"
    /\ t_result.kind = "return"
    /\ Lower(PathSuffix(t_file.path)) = ".pdf"
    /\ file.path = t_file.path
    /\ file.open_error = ""
    /\ Len(file.pages) = Len(t_file.pages)
    /\ ImagesOpen(file)

\* _process_pdf when extract_tables_from_pdf raised
ProcessPdfRaise ==
    /\ d_pc = "idle"
    /\ t_pc = "done"
    /\ t_result.kind = "raise"
    /\ i_pc = "idle"
    /\ d_result' = t_result
    /\ d_pc' = "done"
    /\ UNCHANGED <<varsF, varsM, varsP, varsT, varsS, varsI, varsG, varsB>>

\* _process_pdf after both extractions returned
ProcessPdfReturn ==
    /\ d_pc = "idle"
    /\ t_pc = "done"
    /\ t_result.kind = "return"
    /\ i_pc = "done"
    /\ i_result.kind = "return"
    /\ d_result' = Return([source |-> t_file.path,
                           tables |-> t_result.value,
                           images |-> i_result.value,
                           enriched_content |->
                               CreateEnrichedContent(t_result.value, i_result.value),
                           multimodal_summary |->
                               CreateMultimodalSummary(t_result.value, i_result.value)])
    /\ d_pc' = "done"
    /\ UNCHANGED <<varsF, varsM, varsP, varsT, varsS, varsI, varsG, varsB>>

NextMultimodal ==
    \/ \E file_path \in DocumentPaths : ProcessUnsupported(file_path)
    \/ \E file \in TablePdfFiles : TablesOpen(file)
    \/ TablesFromBlocks
    \/ TablesFromImage
    \/ TablesFinish
    \/ \E ps \in UNION {[1..n -> MultimodalLists] : n \in 0..MaxTablePages} :
          ProcessPdfImages([path |-> "docs/tables.pdf", open_error |-> "", pages |-> ps])
    \/ ImagesPage
    \/ ImagesFinish
    \/ ProcessPdfRaise
    \/ ProcessPdfReturn

SpecMultimodal == Init /\ [][NextMultimodal]_vars

(***************************************************************************)
(* Calls of _create_documents on one processor instance: a first call, any *)
(* number of calls on other texts, and the first call repeated.  The       *)
(* instance keeps chunk_size, chunk_overlap and its text_splitter; no call *)
(* assigns them.                                                           *)
(***************************************************************************)
SmallConfigs == {<<12, 3>>, <<10, 2>>, <<5, 0>>}

ShortTexts ==
    { <<"">>, <<"\n\n">>, <<" ", "">>, <<" pad ">>, <<"ab cd">>, <<"abcde">>,
      <<"a", "", "b">>, <<"abcdefghijkl">>, <<"abcdefghijklmnopqrstuvwxyz">>,
      <<"one two three four five">>, <<"para one", "", "second para is longer", "line">>,
      <<"tab\tsep", "x  y">> }

LongTexts ==
    { <<Rep("w", DefaultChunkSize) \o " " \o Rep("v", DefaultChunkSize + 1)>> }

\* the texts and the configuration (chunk_size, chunk_overlap) of a first call
ChunkCalls ==
    (ShortTexts \X (SmallConfigs \cup {<<DefaultChunkSize, DefaultChunkOverlap>>}))
      \cup (LongTexts \X {<<DefaultChunkSize, DefaultChunkOverlap>>})

OtherTexts == { <<"">>, <<"something else entirely", "y">> }

ChunkMetadata == [source |-> "notes.txt", file_type |-> "text"]

CreateFirst ==
    /\ s_pc = "idle"
    /\ \E call \in ChunkCalls :
          /\ s_proc' = NewProcessor("EnhancedTextProcessor", call[2][1], call[2][2])
          /\ s_texts' = call[1]
          /\ s_out1' = CreateDocuments(call[1], ChunkMetadata, call[2][1], call[2][2])
    /\ s_pc' = "once"
    /\ UNCHANGED <<s_between, s_out2, varsF, varsM, varsP, varsT, varsI, varsD, varsG, varsB>>

\* a call in between that leaves the instance with a larger chunk_size
CreateBetweenResizing ==
    /\ s_pc = "once"
    /\ \E texts \in OtherTexts :
          s_between' = s_between \cup
                          {CreateDocuments(texts, ChunkMetadata,
                                           s_proc.chunk_size, s_proc.chunk_overlap)}
    /\ s_proc' = [s_proc EXCEPT !.chunk_size = @ + 1]
    /\ UNCHANGED <<s_pc, s_texts, s_out1, s_out2, varsF, varsM, varsP, varsT, varsI, varsD, varsG, varsB>>

CreateBetween ==
    /\ s_pc = "once"
    /\ \E texts \in OtherTexts :
          s_between' = s_between \cup
                          {CreateDocuments(texts, ChunkMetadata,
                                           s_proc.chunk_size, s_proc.chunk_overlap)}
    /\ UNCHANGED <<s_pc, s_proc, s_texts, s_out1, s_out2, varsF, varsM, varsP, varsT, varsI, varsD, varsG, varsB>>

CreateAgain ==
    /\ s_pc = "once"
    /\ s_out2' = CreateDocuments(s_texts, ChunkMetadata, s_proc.chunk_size, s_proc.chunk_overlap)
    /\ s_pc' = "twice"
    /\ UNCHANGED <<s_proc, s_texts, s_out1, s_between, varsF, varsM, varsP, varsT, varsI, varsD, varsG, varsB>>

NextSplit ==
    \/ CreateFirst
    \/ CreateBetween
    \/ CreateAgain

SpecSplit == Init /\ [][NextSplit]_vars

(***************************************************************************)
(* Direct calls of _is_table_structure and _extract_table_data on the      *)
(* line_spans of a block, one call in a behaviour                          *)
(***************************************************************************)
MaxLines == 3

\* two spans that round to 10, two spans that round to 20 (both by a tie),
\* two spans in two columns, one span, one blank span, no span
SpanLines ==
    { <<[pos |-> 12, text |-> "a"], [pos |-> 14, text |-> "b"]>>,
      <<[pos |-> 15, text |-> "item"], [pos |-> 25, text |-> " qty "]>>,
      <<[pos |-> 12, text |-> "nut"], [pos |-> 48, text |-> "4"]>>,
      <<[pos |-> 12, text |-> "total"]>>,
      <<[pos |-> 48, text |-> " "]>>,
      <<>> }

LineSpansInputs == UNION {[1..n -> SpanLines] : n \in 0..MaxLines}

IsTableStructureCall(line_spans) ==
    /\ g_call = None
    /\ g_call' = [op |-> "_is_table_structure", line_spans |-> line_spans,
                  accepted |-> IsTableStructure(line_spans)]
    /\ UNCHANGED <<varsF, varsM, varsP, varsT, varsS, varsI, varsD, varsB>>

ExtractTableDataCall(line_spans) ==
    /\ g_call = None
    /\ g_call' = [op |-> "_extract_table_data", line_spans |-> line_spans,
                  table_data |-> ExtractTableData(line_spans)]
    /\ UNCHANGED <<varsF, varsM, varsP, varsT, varsS, varsI, varsD, varsB>>

NextGrid ==
    \/ \E line_spans \in LineSpansInputs : IsTableStructureCall(line_spans)
    \/ \E line_spans \in LineSpansInputs : ExtractTableDataCall(line_spans)

SpecGrid == Init /\ [][NextGrid]_vars

(***************************************************************************)
(* A process call, an extract_tables_from_pdf call and an                  *)
(* extract_images_from_pdf call on three files, interleaved step by step   *)
(***************************************************************************)
ConcurrentPdfFiles ==
    { [format |-> "pdf", path |-> "docs/a.pdf", open_error |-> "",
       pages |-> <<Page("", LongText, "", "", "scan 42"), Page("", EdgeText, "", "", "scan 42")>>],
      [format |-> "pdf", path |-> "docs/b.pdf", open_error |-> "",
       pages |-> <<Page("", "", "", "", " \n"), Page("bad xref", "", "", "", "")>>] }

ConcurrentTableFiles ==
    { [path |-> "docs/c.pdf",
       pages |-> <<[blocks |-> <<>>, image |-> Image("", <<GridRegion, SmallRegion>>)],
                   [blocks |-> <<>>, image |-> Image("", <<ProseRegion, OtherRegion>>)]>>],
      [path |-> "docs/d.pdf",
       pages |-> <<[blocks |-> <<>>, image |-> Image("", <<GridRegion, BadRegion>>)],
                   [blocks |-> KeyErrorBlocks, image |-> Image("", <<>>)]>>] }

ConcurrentImageFiles ==
    { [path |-> "docs/e.pdf", open_error |-> "",
       pages |-> << <<TinyWide, EdgeLogo>>, <<Photo, Chart>> >>],
      [path |-> "docs/f.pdf", open_error |-> "", pages |-> << <<OcrFails, Scan>> >>] }

NextConcurrent ==
    \/ \E file \in ConcurrentPdfFiles :
          PdfOpen(file, <<DefaultChunkSize, DefaultChunkOverlap>>)
    \/ PdfPage
    \/ PdfFinish
    \/ \E file \in ConcurrentTableFiles : TablesOpen(file)
    \/ TablesFromBlocks
    \/ TablesFromImage
    \/ TablesFinish
    \/ \E file \in ConcurrentImageFiles : ImagesOpen(file)
    \/ ImagesPage
    \/ ImagesFinish

SpecConcurrent == Init /\ [][NextConcurrent]_vars

\* a step of a started call: its position in the code moves on
PdfRuns ==
    /\ p_pc = "pages"
    /\ p_pc' \in {"pages", "done"}
    /\ p_page_num' \in {p_page_num, p_page_num + 1}
    /\ <<p_pc', p_page_num'>> # <<p_pc, p_page_num>>

TablesRuns ==
    /\ t_pc \in {"blocks", "image"}
    /\ t_pc' \in {"blocks", "image", "done"}
    /\ t_page_num' \in {t_page_num, t_page_num + 1}
    /\ <<t_pc', t_page_num'>> # <<t_pc, t_page_num>>

ImagesRuns ==
    /\ i_pc = "pages"
    /\ i_pc' \in {"pages", "done"}
    /\ i_page_num' \in {i_page_num, i_page_num + 1}
    /\ <<i_pc', i_page_num'>> # <<i_pc, i_page_num>>

\* the same calls, each running on to its end once started: the body of a
\* call is sequential code that nothing outside it suspends, and in every
\* position of a started call one of its steps can be taken
SpecHandles ==
    /\ Init /\ [][NextConcurrent]_vars
    /\ WF_<<p_pc, p_page_num>>(PdfRuns)
    /\ WF_<<t_pc, t_page_num>>(TablesRuns)
    /\ WF_<<i_pc, i_page_num>>(ImagesRuns)

(***************************************************************************)
(* DatabaseProcessor.process calls                                         *)
(***************************************************************************)
DbColumn(name, type, numeric) == [name |-> name, type |-> type, numeric |-> numeric]

Orders ==
    [name |-> "orders", query_error |-> "",
     columns |-> <<DbColumn("id", "INTEGER", TRUE), DbColumn("item", "TEXT", FALSE)>>,
     rows |-> << <<1, "nut">>, <<2, "bolt">> >>]

Log ==
    [name |-> "log", query_error |-> "",
     columns |-> <<DbColumn("msg", "TEXT", FALSE)>>, rows |-> <<>>]

Audit ==
    [name |-> "audit", query_error |-> "database disk image is malformed",
     columns |-> <<DbColumn("id", "INTEGER", TRUE)>>, rows |-> <<>>]

Database(connect_error, master_error, tables) ==
    [connect_error |-> connect_error, master_error |-> master_error, tables |-> tables]

Databases ==
    { Database("unable to open database file", "", <<>>),
      Database("", "file is not a database", <<>>),
      Database("", "", <<>>),
      Database("", "", <<Orders, Log>>),
      Database("", "", <<Orders, Audit, Log>>) }

DbPaths == {"data.db", "DATA.DB", "store.sqlite", "store.Sqlite"}

TablesArgs ==
    { [given |-> FALSE, names |-> <<>>],
      [given |-> TRUE, names |-> <<>>],
      [given |-> TRUE, names |-> <<"orders">>],
      [given |-> TRUE, names |-> <<"log", "missing", "orders">>] }

\* process up to sqlite3.connect: the test on the connection string, then
\* conn = sqlite3.connect(db_path), cursor = conn.cursor()
DatabaseOpen(path, db, tables) ==
    /\ b_pc = "idle"
    /\ b_proc' = get_processor(registry, path, DefaultChunkSize, DefaultChunkOverlap).value
    /\ b_path' = path
    /\ b_db' = db
    /\ b_arg' = tables
    /\ b_tables' = <<>>
    /\ b_k' = 0
    /\ b_texts' = <<>>
    /\ b_info' = <<>>
    /\ IF ~IsSqlitePath(path)
       THEN /\ b_result' = Wrapped("Error processing database", path, UnsupportedDatabase)
            /\ b_conn_open' = FALSE
            /\ b_pc' = "done"
       ELSE IF db.connect_error # ""
       THEN /\ b_result' = Wrapped("Error processing database", path, db.connect_error)
            /\ b_conn_open' = FALSE
            /\ b_pc' = "done"
       ELSE /\ b_result' = None
            /\ b_conn_open' = TRUE
            /\ b_pc' = "names"
    /\ UNCHANGED <<varsF, varsM, varsP, varsT, varsS, varsI, varsD, varsG>>

\* the table names: those given, or those of sqlite_master; a failure of the
\* query leaves through finally: conn.close()
DatabaseNames ==
    /\ b_pc = "names"
    /\ IF ~b_arg.given /\ b_db.master_error # ""
       THEN /\ b_result' = Wrapped("Error processing database", b_path, b_db.master_error)
            /\ b_conn_open' = FALSE
            /\ b_pc' = "done"
            /\ UNCHANGED b_tables
       ELSE /\ b_tables' = IF b_arg.given THEN b_arg.names ELSE TableNames(b_db)
            /\ b_pc' = "tables"
            /\ UNCHANGED <<b_conn_open, b_result>>
    /\ UNCHANGED <<b_proc, b_path, b_db, b_arg, b_k, b_texts, b_info,
                   varsF, varsM, varsP, varsT, varsS, varsI, varsD, varsG>>

\* the iteration with the finally clause left out
DatabaseTableNoFinally ==
    /\ b_pc = "tables"
    /\ b_k < Len(b_tables)
    /\ LET out == SqliteTable(b_db, b_tables[b_k + 1])
       IN  IF out.kind = "raise"
           THEN /\ b_result' = Wrapped("Error processing database", b_path, out.message)
                /\ b_pc' = "done"
                /\ UNCHANGED <<b_k, b_texts, b_info, b_conn_open>>
           ELSE /\ b_texts' = Append(b_texts, out.value.text)
                /\ b_info' = Append(b_info, out.value.info)
                /\ b_k' = b_k + 1
                /\ UNCHANGED <<b_pc, b_conn_open, b_result>>
    /\ UNCHANGED <<b_proc, b_path, b_db, b_arg, b_tables,
                   varsF, varsM, varsP, varsT, varsS, varsI, varsD, varsG>>

\* one iteration of the table loop; a failing query leaves through finally:
\* conn.close(), and process wraps the exception
DatabaseTable ==
    /\ b_pc = "tables"
    /\ b_k < Len(b_tables)
    /\ LET out == SqliteTable(b_db, b_tables[b_k + 1])
       IN  IF out.kind = "raise"
           THEN /\ b_result' = Wrapped("Error processing database", b_path, out.message)
                /\ b_conn_open' = FALSE
                /\ b_pc' = "done"
                /\ UNCHANGED <<b_k, b_texts, b_info>>
           ELSE /\ b_texts' = Append(b_texts, out.value.text)
                /\ b_info' = Append(b_info, out.value.info)
                /\ b_k' = b_k + 1
                /\ UNCHANGED <<b_pc, b_conn_open, b_result>>
    /\ UNCHANGED <<b_proc, b_path, b_db, b_arg, b_tables,
                   varsF, varsM, varsP, varsT, varsS, varsI, varsD, varsG>>

\* after the loop: metadata, _create_documents, finally: conn.close()
DatabaseFinish ==
    /\ b_pc = "tables"
    /\ b_k = Len(b_tables)
    /\ b_result' = Return(CreateDocuments(b_texts, SqliteMetadata(b_path, b_tables, b_info),
                                          b_proc.chunk_size, b_proc.chunk_overlap))
    /\ b_conn_open' = FALSE
    /\ b_pc' = "done"
    /\ UNCHANGED <<b_proc, b_path, b_db, b_arg, b_tables, b_k, b_texts, b_info,
                   varsF, varsM, varsP, varsT, varsS, varsI, varsD, varsG>>

NextDatabase ==
    \/ \E path \in DbPaths, db \in Databases, tables \in TablesArgs :
          DatabaseOpen(path, db, tables)
    \/ DatabaseNames
    \/ DatabaseTable
    \/ DatabaseFinish

SpecDatabase == Init /\ [][NextDatabase]_vars

(***************************************************************************)
(* Properties of the factory                                               *)
(***************************************************************************)
\* The extension a path dir/stem+ext was built with: ext when there is one
\* (a name that is only ".ext" is a hidden file without extension), else
\* what follows the last dot of the stem.
BuiltExtension(stem, ext) ==
    IF ext # "" THEN (IF stem = "" THEN "" ELSE ext)
    ELSE IF stem = "my.report" THEN ".report" ELSE ""

\* C1: get_processor raises the unsupported-format error exactly when the
\* lower-cased extension of the path is not a key of the registry, otherwise
\* it returns an instance of the class registered for that extension
\* ("file.exe" raises, "file.pdf" gives the PDF processor);
\* get_supported_types returns exactly the registry's keys.
C1_FactoryDispatch ==
    /\ f_call.op = "get_processor" =>
          LET want == Lower(BuiltExtension(f_call.stem, f_call.ext))
          IN  /\ want \notin RegistryKeys(registry) =>
                    /\ f_call.result.kind = "raise"
                    /\ f_call.result.exc = "ValueError"
                    /\ f_call.result.message = "Unsupported file type: " \o want
              /\ want \in RegistryKeys(registry) =>
                    /\ f_call.result.kind = "return"
                    /\ \E i \in 1..Len(registry) :
                          /\ registry[i][1] = want
                          /\ f_call.result.value.cls = registry[i][2]
              /\ f_call.file_path = "file.exe" => f_call.result.kind = "raise"
              /\ f_call.file_path = "file.pdf" =>
                    /\ f_call.result.kind = "return"
                    /\ f_call.result.value.cls = "PDFProcessor"
    /\ f_call.op = "get_supported_types" =>
          /\ f_call.result.kind = "return"
          /\ {f_call.result.value[i] : i \in 1..Len(f_call.result.value)}
                = {registry[i][1] : i \in 1..Len(registry)}
          /\ Len(f_call.result.value) = Cardinality(RegistryKeys(registry))

\* C1 witness: an upper-case registered extension after a dotted stem is
\* served, and the call before or after it on "file.exe" is refused
C1_Witness ==
    /\ f_call.op = "get_processor"
    /\ f_call.file_path = "docs/my.report.PDF"
    /\ f_call.result.kind = "return"
    /\ f_call.result.value.cls = "PDFProcessor"

(***************************************************************************)
(* Properties of table reconciliation                                      *)
(***************************************************************************)
\* the unit cells a bounding box covers
Cells(bbox) == {<<x, y>> : x \in bbox[1]..(bbox[3] - 1), y \in bbox[2]..(bbox[4] - 1)}

\* same page, and intersection area more than 50% of the smaller box's area
Duplicates(a, b) ==
    /\ a.page = b.page
    /\ 2 * Cardinality(Cells(a.bbox) \cap Cells(b.bbox))
          > Min2(Cardinality(Cells(a.bbox)), Cardinality(Cells(b.bbox)))

\* C2: reconciling twice gives the same list as reconciling once,
\* for every candidate list, overlap chains included.
C2_MergeIdempotent == m_pc = "twice" => m_out2 = m_out1

\* C3: no two candidates of a reconciled list are on the same page with
\* boxes intersecting in more than 50% of the smaller box's area.
C3_MergeDeduplicated ==
    m_pc # "idle" =>
        \A i, j \in 1..Len(m_out1) : i # j => ~Duplicates(m_out1[i], m_out1[j])

\* C4: two candidates reconcile to one exactly when they are on the same
\* page and their boxes intersect in more than 50% of the smaller box; the
\* survivor is then the one with the higher confidence, in either input
\* order; otherwise both are returned unchanged.
C4_MergePair ==
    (m_pc # "idle" /\ Len(m_in) = 2) =>
        LET a == m_in[1]
            b == m_in[2]
        IN  IF Duplicates(a, b)
            THEN /\ Len(m_out1) = 1
                 /\ m_out1[1] \in {a, b}
                 /\ m_out1[1].confidence >= a.confidence
                 /\ m_out1[1].confidence >= b.confidence
            ELSE m_out1 = m_in

\* C4 witness: the 0.6 candidate comes first, the 0.8 candidate survives
C4_Witness ==
    /\ m_pc = "once"
    /\ Len(m_in) = 2
    /\ m_in[1].confidence = ConfImageBased
    /\ m_in[2].confidence = ConfTextBased
    /\ Duplicates(m_in[1], m_in[2])
    /\ m_out1 = <<m_in[2]>>

(***************************************************************************)
(* Properties of the format processors                                     *)
(***************************************************************************)
\* C5: in every list of N chunks that process returns, the chunk_id values
\* are 0..N-1 in list order and every chunk_count is N.
C5_ChunkIndices ==
    (p_pc = "done" /\ p_result.kind = "return") =>
        \A i \in 1..Len(p_result.value) :
            /\ p_result.value[i].chunk_id = i - 1
            /\ p_result.value[i].chunk_count = Len(p_result.value)

\* C5 witness: a call that returned at least three chunks
C5_Witness ==
    /\ p_pc = "done"
    /\ p_result.kind = "return"
    /\ Len(p_result.value) >= 3

\* C6: when the input file cannot be opened, process raises an error whose
\* message carries the path and the underlying cause, whatever the
\* processor; it never returns an empty chunk list.
C6_OpenFailureRaises ==
    (p_pc = "done" /\ ~Opens(p_file)) =>
        /\ p_result.kind = "raise"
        /\ Contains(p_result.message, p_file.path)
        /\ Contains(p_result.message, p_file.open_error)

\* a page that yields no text: blank direct text, and a rasterization or a
\* recognition that fails or recognizes only blanks
BlankPage(page) ==
    /\ page.text_error = ""
    /\ Strip(page.text) = ""
    /\ (page.raster_error # "" \/ page.ocr_error # "" \/ Strip(page.ocr_text) = "")

\* a shape without text: blank shape text, and for a picture a recognition
\* that fails or recognizes only blanks
BlankShape(shape) ==
    /\ ~(shape.has_text /\ Strip(shape.text) # "")
    /\ (shape.shape_type = PictureType =>
            (shape.ocr_error # "" \/ Strip(shape.ocr_text) = ""))

\* an input that opens and has no content
ContentEmpty(file) ==
    /\ Opens(file)
    /\ CASE file.format = "pdf" ->
              \A k \in 1..Len(file.pages) : BlankPage(file.pages[k])
         [] file.format = "docx" ->
              /\ \A k \in 1..Len(file.paragraphs) : Strip(file.paragraphs[k]) = ""
              /\ \A t \in 1..Len(file.tables) : \A r \in 1..Len(file.tables[t]) :
                    \A c \in 1..Len(file.tables[t][r]) : Strip(file.tables[t][r][c]) = ""
         [] file.format = "pptx" ->
              \A k \in 1..Len(file.slides) : \A j \in 1..Len(file.slides[k]) :
                    BlankShape(file.slides[k][j])
         [] file.format \in {"xlsx", "csv"} ->
              \A k \in 1..Len(file.sheets) : DfEmpty(file.sheets[k].df)
         [] file.format = "md" ->
              \A k \in 1..Len(file.elements) : Strip(file.elements[k].text) = ""
         [] file.format = "txt" -> Strip(file.content) = ""
         [] OTHER -> FALSE

\* C7: for an input that opens and has no content, process does not raise
\* and returns the empty chunk list.
C7_EmptyInputReturnsEmpty ==
    (p_pc = "done" /\ ContentEmpty(p_file)) => p_result = Return(<<>>)

\* C8: when PDFProcessor.process, with the default chunk size, has ended,
\* the block of every page that yields content by itself is in a chunk of
\* the result, whatever happened on the other pages.
C8_PageIsolation ==
    (p_pc = "done" /\ p_file.format = "pdf" /\ Opens(p_file)
        /\ p_proc.chunk_size = DefaultChunkSize) =>
        \A j \in 1..Len(p_file.pages) :
            (p_file.pages[j].text_error = ""
                /\ PageContent(p_file.pages[j]).content # <<>>) =>
                /\ p_result.kind = "return"
                /\ \E i \in 1..Len(p_result.value) :
                      Contains(p_result.value[i].page_content,
                               PageText(j - 1, PageContent(p_file.pages[j]).content))

\* C10: every page handled so far whose stripped direct text is longer
\* than 50 characters has exactly one block, "[Text]: " and that text,
\* and recognition was not called for the page.
C10_DirectTextOnly ==
    (p_pc \in {"pages", "done"} /\ p_file.format = "pdf") =>
        \A j \in 1..p_page_num :
            Len(Strip(p_file.pages[j].text)) > MinTextLength =>
                /\ (j - 1) \notin p_ocr_pages
                /\ Cardinality({k \in 1..Len(p_texts) :
                                  StartsAt(p_texts[k], 1, "[Page " \o ToString(j) \o "]\n")}) = 1
                /\ \E k \in 1..Len(p_texts) :
                      p_texts[k] = "[Page " \o ToString(j) \o "]\n[Text]: "
                                      \o Strip(p_file.pages[j].text)

\* C10 witness: a two-page document ended, its first page with 51
\* characters of direct text and its second page recognized
C10_Witness ==
    /\ p_pc = "done"
    /\ p_file.format = "pdf"
    /\ p_page_num = 2
    /\ Len(Strip(p_file.pages[1].text)) = MinTextLength + 1
    /\ p_ocr_pages = {1}
    /\ p_result.kind = "return"
    /\ Len(p_result.value) >= 1

\* recognition on the rasterized page yields no text: it recognizes only
\* blanks, or rasterization or recognition fails
NoRecognizedText(page) ==
    page.raster_error # "" \/ page.ocr_error # "" \/ Strip(page.ocr_text) = ""

\* the blocks of texts that belong to page j (numbered from 1)
PageBlocks(j) ==
    {k \in 1..Len(p_texts) : StartsAt(p_texts[k], 1, "[Page " \o ToString(j) \o "]\n")}

\* C11 as stated: every page handled so far whose stripped direct text has
\* at most 50 characters and on which recognition yields no text has no
\* block in texts, and the call does not raise.
C11_ShortTextNoBlock ==
    (p_pc \in {"pages", "done"} /\ p_file.format = "pdf") =>
        /\ \A j \in 1..p_page_num :
              (Len(Strip(p_file.pages[j].text)) <= MinTextLength
                  /\ NoRecognizedText(p_file.pages[j])) => PageBlocks(j) = {}
        /\ p_pc = "done" => p_result.kind = "return"

\* C11 amended: every page handled so far whose direct text is blank and on
\* which recognition yields no text has no block in texts, and the call
\* does not raise; a page with 1 to 50 characters of direct text keeps its
\* "[Text]: " block.
C11_BlankPageNoBlock ==
    (p_pc \in {"pages", "done"} /\ p_file.format = "pdf") =>
        /\ \A j \in 1..p_page_num :
              NoRecognizedText(p_file.pages[j]) =>
                  IF Strip(p_file.pages[j].text) = "" THEN PageBlocks(j) = {}
                  ELSE \E k \in PageBlocks(j) :
                          p_texts[k] = "[Page " \o ToString(j) \o "]\n[Text]: "
                                          \o Strip(p_file.pages[j].text)
        /\ p_pc = "done" => p_result.kind = "return"

\* C11 witness: a two-page document ended whose first page is blank and
\* recognized as blanks, and whose second page alone is in the result
C11_Witness ==
    /\ p_pc = "done"
    /\ p_file.format = "pdf"
    /\ p_page_num = 2
    /\ Strip(p_file.pages[1].text) = ""
    /\ p_file.pages[1].ocr_error = ""
    /\ p_file.pages[1].raster_error = ""
    /\ 0 \in p_ocr_pages
    /\ Len(p_texts) = 1
    /\ PageBlocks(2) = {1}
    /\ p_result.kind = "return"
    /\ Len(p_result.value) >= 1

\* a page with 1 to 50 characters of direct text on which recognition
\* returned text
BothTexts(page) ==
    /\ page.text_error = ""
    /\ Strip(page.text) # ""
    /\ Len(Strip(page.text)) <= MinTextLength
    /\ page.raster_error = ""
    /\ page.ocr_error = ""
    /\ Strip(page.ocr_text) # ""

\* C12: every page handled so far with non-empty direct text of at most 50
\* characters and non-empty recognized text has exactly one block, which
\* holds the recognized text under "[OCR]: " and then the direct text
\* under "[Text]: ".
C12_BothRetained ==
    (p_pc \in {"pages", "done"} /\ p_file.format = "pdf") =>
        \A j \in 1..p_page_num :
            BothTexts(p_file.pages[j]) =>
                /\ Cardinality(PageBlocks(j)) = 1
                /\ \A k \in PageBlocks(j) :
                      p_texts[k] = "[Page " \o ToString(j) \o "]\n"
                                      \o "[OCR]: " \o Strip(p_file.pages[j].ocr_text) \o "\n"
                                      \o "[Text]: " \o Strip(p_file.pages[j].text)

\* C12 witness: a document ended whose second page has exactly 50
\* characters of direct text and recognized text, after a page of another
\* kind
C12_Witness ==
    /\ p_pc = "done"
    /\ p_file.format = "pdf"
    /\ p_page_num = 2
    /\ ~BothTexts(p_file.pages[1])
    /\ BothTexts(p_file.pages[2])
    /\ Len(Strip(p_file.pages[2].text)) = MinTextLength
    /\ 1 \in p_ocr_pages
    /\ PageBlocks(2) # {}
    /\ p_result.kind = "return"
    /\ p_result.value # <<>>

\* the pages of the processed document whose direct text did not exceed the
\* threshold, so that the recognition branch was taken for them
NeededRecognition ==
    {j \in 1..Len(p_file.pages) :
        ~(Strip(p_file.pages[j].text) # ""
            /\ Len(Strip(p_file.pages[j].text)) > MinTextLength)}

\* C13: the metadata of every chunk returned for a PDF records the number
\* of pages of the document, blank pages included, and a processor variant
\* that is the OCR one ('PDFProcessor_OCR' in the code) exactly when at
\* least one page needed recognition.
C13_MetadataRecords ==
    (p_pc = "done" /\ p_file.format = "pdf" /\ p_result.kind = "return") =>
        \A i \in 1..Len(p_result.value) :
            /\ p_result.value[i].metadata.page_count = Len(p_file.pages)
            /\ (p_result.value[i].metadata.processor = "PDFProcessor_OCR")
                  <=> (NeededRecognition # {})

(***************************************************************************)
(* Properties of the chunking engine                                       *)
(***************************************************************************)
\* the chunk sequence of a list of documents
Segments(documents) == [i \in 1..Len(documents) |-> documents[i].page_content]

\* the text handed to split_text by the first call
FullText == Join("\n", s_texts)

\* C14: every segment returned by _create_documents, in the first call, in
\* the calls in between and in the repeated call, has at most chunk_size
\* characters; a word longer than chunk_size is cut by the empty separator,
\* so the exception of the claim is never needed.
C14_SegmentLength ==
    s_pc # "idle" =>
        /\ \A i \in 1..Len(s_out1) : Len(s_out1[i].page_content) <= s_proc.chunk_size
        /\ \A i \in 1..Len(s_out2) : Len(s_out2[i].page_content) <= s_proc.chunk_size
        /\ \A ds \in s_between :
              \A i \in 1..Len(ds) : Len(ds[i].page_content) <= s_proc.chunk_size

\* C14 witness: a text with a word longer than chunk_size was chunked into
\* several segments, one of them of exactly chunk_size characters
C14_Witness ==
    /\ s_pc # "idle"
    /\ \E k \in 1..Len(s_texts) :
          /\ Len(s_texts[k]) > s_proc.chunk_size
          /\ \A i \in 1..Len(s_texts[k]) : Ch(s_texts[k], i) \notin Whitespace
    /\ Len(s_out1) > 2
    /\ \E i \in 1..Len(s_out1) : Len(s_out1[i].page_content) = s_proc.chunk_size

C16_SingleSegment ==
    (s_pc # "idle" /\ Len(FullText) <= s_proc.chunk_size) => Len(s_out1) = 1

\* C16 amended: a text of at most chunk_size characters gives exactly one
\* segment, the stripped text, when it has a character that is not white
\* space, and no segment when it is empty or white space only.
C16_SingleOrNone ==
    (s_pc # "idle" /\ Len(FullText) <= s_proc.chunk_size) =>
        IF Strip(FullText) = "" THEN s_out1 = <<>>
        ELSE Segments(s_out1) = <<Strip(FullText)>>

\* C16 witness: a text of exactly chunk_size characters with a separator
\* inside came back as one segment
C16_Witness ==
    /\ s_pc # "idle"
    /\ Len(FullText) = s_proc.chunk_size
    /\ Contains(FullText, " ")
    /\ Len(s_out1) = 1
    /\ s_out1[1].page_content = FullText
    /\ s_out1[1].chunk_count = 1

(***************************************************************************)
(* Configuration                                                           *)
(***************************************************************************)
\* C20: every step of a factory call or of a process call leaves the
\* registry as it was, which is the registry of the class definition, so
\* get_supported_types() lists the same keys; it leaves the processor
\* instance as constructed, and an instance has the chunk_size and
\* chunk_overlap it was constructed with (1000 and 200 by default).
C20_ConfigurationUnchanged ==
    [][/\ registry' = registry
       /\ registry' = _processors
       /\ get_supported_types(registry') = get_supported_types(registry)
       /\ p_proc # None => p_proc' = p_proc
       /\ p_proc' # None =>
             <<p_proc'.chunk_size, p_proc'.chunk_overlap>> \in Configs
       /\ (f_call'.op = "get_processor" /\ f_call'.result.kind = "return") =>
             <<f_call'.result.value.chunk_size, f_call'.result.value.chunk_overlap>>
                \in Configs]_vars

\* C20 witness: a process call on a processor of the default configuration
\* returned chunks, a get_processor call failed after it began, and the
\* registry and the instance are as at the start
C20_Witness ==
    /\ p_pc = "done"
    /\ p_result.kind = "return"
    /\ p_result.value # <<>>
    /\ p_proc.chunk_size = 1000
    /\ p_proc.chunk_overlap = 200
    /\ f_call.op = "get_processor"
    /\ f_call.result.kind = "raise"
    /\ registry = _processors

(***************************************************************************)
(* Properties of image extraction and of the multimodal result             *)
(***************************************************************************)
\* the embedded images of the pages handled so far that are below 50 pixels
\* in width or in height, as (page_num, img_idx)
SmallImages ==
    UNION {{<<p, k - 1>> : k \in {j \in 1..Len(i_file.pages[p + 1]) :
                                    \/ i_file.pages[p + 1][j].width < 50
                                    \/ i_file.pages[p + 1][j].height < 50}} :
             p \in 0..(i_page_num - 1)}

\* C17: every record of extract_images_from_pdf has width and height of at
\* least 50, and an embedded image below 50 in width or height has no
\* record and _process_image (enhancement and recognition) was not called
\* on it; the list returned is the list of these records.
C17_MinimumSize ==
    (i_pc \in {"pages", "done"} /\ i_file.open_error = "") =>
        /\ \A k \in 1..Len(i_images) :
              i_images[k].size[1] >= 50 /\ i_images[k].size[2] >= 50
        /\ \A pi \in SmallImages :
              /\ pi \notin i_ocr_calls
              /\ \A k \in 1..Len(i_images) :
                    <<i_images[k].page, i_images[k].image_id>> # pi
        /\ i_pc = "done" => i_result = Return(i_images)

\* C17 witness: the extraction ended on a document with an image of height
\* 49, an image of width 49 and an image of exactly 50 by 50, which alone
\* of these has a record
C17_Witness ==
    /\ i_pc = "done"
    /\ i_result.kind = "return"
    /\ Cardinality(SmallImages) >= 2
    /\ \E pi \in SmallImages : i_file.pages[pi[1] + 1][pi[2] + 1].width >= 50
    /\ \E pi \in SmallImages : i_file.pages[pi[1] + 1][pi[2] + 1].height >= 50
    /\ \E k \in 1..Len(i_result.value) : i_result.value[k].size = <<50, 50>>
    /\ i_ocr_calls # {}

\* the class the cascade of the claim gives to an image mode, a number of
\* distinct colors and a recognized text
CascadeClass(mode, colors, text) ==
    IF Len(text) > 50 THEN "text_image"
    ELSE IF \E i \in 1..Len(text) : Ch(text, i) \in Digits THEN "chart_or_graph"
    ELSE IF mode = "1" THEN "diagram"
    ELSE IF mode \in {"RGB", "RGBA"} /\ colors < 10 THEN "logo_or_icon"
    ELSE "photograph"

\* C18: _classify_image_type returns one of the five classes, the one of
\* the first rule that applies: text longer than 50 characters, a digit in
\* the text, a 1-bit image, an RGB or RGBA image with fewer than 10
\* distinct colors, and photograph otherwise; the records of an extraction
\* carry the class of their image.
C18_Cascade ==
    /\ c_call # None =>
          /\ c_call.result \in {"text_image", "chart_or_graph", "diagram",
                                "logo_or_icon", "photograph"}
          /\ c_call.result = CascadeClass(c_call.image.mode, c_call.image.colors,
                                          c_call.ocr_text)
    /\ i_pc \in {"pages", "done"} =>
          \A k \in 1..Len(i_images) :
              i_images[k].image_type =
                  CascadeClass(i_images[k].mode,
                               i_file.pages[i_images[k].page + 1]
                                           [i_images[k].image_id + 1].colors,
                               i_images[k].ocr_text)

\* C18 witness: a 1-bit image whose text has more than 50 characters and a
\* digit was classified text_image
C18_Witness ==
    /\ c_call # None
    /\ Len(c_call.ocr_text) > 50
    /\ HasDigit(c_call.ocr_text)
    /\ c_call.image.mode = "1"
    /\ c_call.image.colors < 10
    /\ c_call.result = "text_image"

\* the images of a list whose recognized text is not empty
WithText(images) == SelectSeq(images, LAMBDA image : image.ocr_text # "")

\* C19: the enriched content of a process_document result has one block
\* per table of its tables, in their order, each starting with the tag of
\* the table's page, and then one block per image with non-empty
\* recognized text, in their order, each with the tag of the image's page
\* and class; images without recognized text have no block.  The tables
\* are those extract_tables_from_pdf returned, the images those
\* extract_images_from_pdf returned.
C19_EnrichedContent ==
    (d_pc = "done" /\ d_result.kind = "return") =>
        LET tables  == d_result.value.tables
            images  == WithText(d_result.value.images)
            content == d_result.value.enriched_content
        IN  /\ d_result.value.tables = t_result.value
            /\ d_result.value.images = i_result.value
            /\ Len(content) = Len(tables) + Len(images)
            /\ \A k \in 1..Len(tables) :
                  StartsAt(content[k], 1,
                           "[TABLE on page " \o ToString(tables[k].page) \o "]\n")
            /\ \A k \in 1..Len(images) :
                  content[Len(tables) + k] =
                      "[IMAGE on page " \o ToString(images[k].page) \o " - "
                          \o images[k].image_type \o "]\n"
                          \o "OCR Text: " \o images[k].ocr_text

\* C19 witness: a result with two tables, an image without recognized
\* text and images with recognized text on two pages
C19_Witness ==
    /\ d_pc = "done"
    /\ d_result.kind = "return"
    /\ Len(d_result.value.tables) >= 2
    /\ \E k \in 1..Len(d_result.value.images) : d_result.value.images[k].ocr_text = ""
    /\ {im.page : im \in {WithText(d_result.value.images)[k] :
                             k \in 1..Len(WithText(d_result.value.images))}} = {0, 1}
    /\ Len(d_result.value.enriched_content) >= 4

(***************************************************************************)
(* Properties of table extraction                                          *)
(***************************************************************************)
\* the image regions of a file that yield a candidate by themselves:
\* page index and contour index, both from 1
GoodRegions(file) ==
    {pi \in (1..Len(file.pages)) \X (1..2) :
        /\ file.pages[pi[1]].image.decode_error = ""
        /\ pi[2] <= Len(file.pages[pi[1]].image.contours)
        /\ file.pages[pi[1]].image.contours[pi[2]].area > MinRegionArea
        /\ file.pages[pi[1]].image.contours[pi[2]].ocr_error = ""
        /\ ValidateTableText(file.pages[pi[1]].image.contours[pi[2]].ocr_text)}

\* C9: when extract_tables_from_pdf has ended it has returned, and the
\* candidate of every image region that yields one by itself is in the
\* list, whatever a detection method threw on another block or region.
C9_DetectionIsolation ==
    t_pc = "done" =>
        /\ t_result.kind = "return"
        /\ \A pi \in GoodRegions(t_file) :
              \E k \in 1..Len(t_result.value) :
                  t_result.value[k] =
                      ImageCandidate(pi[1] - 1, pi[2] - 1,
                          RegionBox(t_file.pages[pi[1]].image.contours[pi[2]].rect),
                          t_file.pages[pi[1]].image.contours[pi[2]].ocr_text)

(***************************************************************************)
(* Independence of concurrent calls                                        *)
(***************************************************************************)
\* the list texts of PDFProcessor.process run alone, from page k on, or the
\* marker "failed" when page.get_text() raises
RECURSIVE PdfTextsAlone(_, _)
PdfTextsAlone(pages, k) ==
    IF k > Len(pages) THEN <<>>
    ELSE IF pages[k].text_error # "" THEN <<"failed">>
    ELSE LET rest == PdfTextsAlone(pages, k + 1)
             pc   == PageContent(pages[k]).content
         IN  IF rest = <<"failed">> THEN rest
             ELSE IF pc = <<>> THEN rest
             ELSE <<PageText(k - 1, pc)>> \o rest

\* the result of PDFProcessor.process run alone
PdfAlone(file, proc) ==
    IF ~Opens(file) THEN Return(<<>>)
    ELSE LET texts == PdfTextsAlone(file.pages, 1)
         IN  IF texts = <<"failed">> \/ texts = <<>> THEN Return(<<>>)
             ELSE Return(CreateDocuments(texts, PdfMetadata(file.path, texts),
                                         proc.chunk_size, proc.chunk_overlap))

\* the list tables of extract_tables_from_pdf run alone, from page k on
RECURSIVE TablesAloneFrom(_, _, _)
TablesAloneFrom(pages, k, tables) ==
    IF k > Len(pages) THEN Return(MergeDuplicateTables(tables))
    ELSE LET out == DetectTablesFromBlocks(pages[k].blocks, k - 1)
         IN  IF out.kind = "raise" THEN out
             ELSE TablesAloneFrom(pages, k + 1,
                                  tables \o out.value
                                         \o DetectTablesFromImage(pages[k].image, k - 1))

\* the list images of extract_images_from_pdf run alone, from page k on
RECURSIVE ImagesAloneFrom(_, _)
ImagesAloneFrom(pages, k) ==
    IF k > Len(pages) THEN <<>>
    ELSE PageRecords(pages[k], 1, k - 1) \o ImagesAloneFrom(pages, k + 1)

LineColumns(spans) == {Round10(spans[k].pos) : k \in 1..Len(spans)}

\* C22: _is_table_structure accepts line_spans exactly when there are at
\* least 2 lines and more than half of the lines have spans in at least 2
\* distinct rounded positions.
C22_StructureTest ==
    g_call.op = "_is_table_structure" =>
        (g_call.accepted <=>
            /\ Len(g_call.line_spans) >= 2
            /\ 2 * Cardinality({l \in 1..Len(g_call.line_spans) :
                                   Cardinality(LineColumns(g_call.line_spans[l])) >= 2})
                  > Len(g_call.line_spans))

\* the rounded positions at which a span has text that is not blank, sorted
TextPositions(line_spans) ==
    Sorted({p \in ColumnPositions(line_spans) :
               \E l \in 1..Len(line_spans) : \E k \in 1..Len(line_spans[l]) :
                   /\ Round10(line_spans[l][k].pos) = p
                   /\ Strip(line_spans[l][k].text) # ""})

\* C29: in the grid _extract_table_data returns, every span text that is
\* not blank is in the cell of its line's row and of its rounded
\* position's column, also when two spans of a line round to one position.
C29_NoTextLost ==
    (g_call.op = "_extract_table_data" /\ ~g_call.table_data.is_none) =>
        LET line_spans == g_call.line_spans
            slots      == TextPositions(line_spans)
            rows       == g_call.table_data.rows
        IN  \A l \in 1..Len(line_spans) : \A k \in 1..Len(line_spans[l]) :
                Strip(line_spans[l][k].text) # "" =>
                    \E c \in 1..Len(slots) :
                        /\ slots[c] = Round10(line_spans[l][k].pos)
                        /\ l <= Len(rows)
                        /\ c <= Len(rows[l])
                        /\ Contains(rows[l][c], Strip(line_spans[l][k].text))


(***************************************************************************)
(* Properties of structured plain text                                     *)
(***************************************************************************)
\* the lines of an ended call's text file
FileLines == ReSplit(p_file.content, "\n")

\* an ended call on a readable text file detected as structured
StructuredCall ==
    /\ p_pc = "done"
    /\ p_file.format = "txt"
    /\ Opens(p_file)
    /\ DetectStructure(FileLines)

\* the lines of each block of the call
Blocks == [k \in 1..Len(p_texts) |-> ReSplit(p_texts[k], "\n")]

\* the non-blank lines of the file, in file order, as the loop sees them
NonBlankLines ==
    SelectSeq([k \in 1..Len(FileLines) |-> Strip(FileLines[k])], LAMBDA line : line # "")

\* the number of lines in the first k blocks
RECURSIVE LinesUpTo(_)
LinesUpTo(k) == IF k = 0 THEN 0 ELSE LinesUpTo(k - 1) + Len(Blocks[k])

\* the lines of the first k blocks, one after another
RECURSIVE BlockLinesUpTo(_)
BlockLinesUpTo(k) == IF k = 0 THEN <<>> ELSE BlockLinesUpTo(k - 1) \o Blocks[k]

\* the number of non-blank lines before line j of the file
NonBlankBefore(j) == Cardinality({i \in 1..(j - 1) : Strip(FileLines[i]) # ""})

\* C23: for content detected as structured, the blocks of
\* _process_structured_text partition the non-blank lines: the blocks' lines,
\* one after another, are the non-blank lines in file order; no block is
\* empty or holds a blank line; no block has more than 20 lines; and the
\* block being built ends at every blank line
C23_Partition ==
    StructuredCall =>
        /\ BlockLinesUpTo(Len(p_texts)) = NonBlankLines
        /\ \A k \in 1..Len(p_texts) :
              /\ Len(Blocks[k]) \in 1..BlockLines
              /\ \A i \in 1..Len(Blocks[k]) : Blocks[k][i] # ""
        /\ \A j \in 1..Len(FileLines) :
              Strip(FileLines[j]) = "" =>
                 NonBlankBefore(j) \in {LinesUpTo(k) : k \in 0..Len(p_texts)}

\* a structured file with a blank line between non-blank lines and a run of
\* more than 20 non-blank lines has been processed
C23_Witness ==
    /\ StructuredCall
    /\ Len(p_texts) >= 3
    /\ \E k \in 1..Len(p_texts) : Len(Blocks[k]) = BlockLines
    /\ \E j \in 2..Len(FileLines) :
          Strip(FileLines[j]) = "" /\ NonBlankBefore(j) \in 1..(Len(NonBlankLines) - 1)


(***************************************************************************)
(* Properties of Markdown sections                                         *)
(***************************************************************************)
\* an ended call on a readable Markdown file
MarkdownCallEnded == p_pc = "done" /\ p_file.format = "md" /\ Opens(p_file)

\* the positions of the headings of the rendered document
HeadingPositions == {k \in 1..Len(p_file.elements) : p_file.elements[k].name \in HeadingNames}

\* the whole-document text was used: no section was saved by the loop
FellBack == SectionLoop(p_file.elements, 1, <<>>, "", <<>>) = <<>>

\* the text is part of the output
InOutput(text) == \E k \in 1..Len(p_texts) : Contains(p_texts[k], text)

\* C24: the whole-document text is used exactly when the rendered document
\* has no heading; otherwise the content before the first heading and every
\* heading, with or without content, are part of the output text
C24_Sections ==
    MarkdownCallEnded =>
        /\ FellBack <=> HeadingPositions = {}
        /\ FellBack => p_texts = <<SoupText(p_file)>>
        /\ \A k \in 1..Len(p_file.elements) :
              Strip(p_file.elements[k].text) # "" => InOutput(Strip(p_file.elements[k].text))


(***************************************************************************)
(* Properties of spreadsheet text                                          *)
(***************************************************************************)
\* an ended call that read a spreadsheet
ExcelCallEnded ==
    p_pc = "done" /\ p_file.format \in {"xlsx", "csv"} /\ p_result.kind = "return"

\* the non-empty sheets of the file, in sheet order: one text each
KeptSheets == SelectSeq(p_file.sheets, LAMBDA sheet : ~DfEmpty(sheet.df))

\* the lines of the text of the k-th non-empty sheet
SheetLines(k) == ReSplit(p_texts[k], "\n")

\* the first position of a line in a text's lines, 0 when it is not there
LineIndex(lines, line) ==
    IF \E i \in 1..Len(lines) : lines[i] = line
    THEN CHOOSE i \in 1..Len(lines) :
            lines[i] = line /\ \A j \in 1..(i - 1) : lines[j] # line
    ELSE 0

\* the lines between "Summary Statistics:" and the blank line before
\* "Sample Data:"
StatisticsOf(lines) ==
    IF LineIndex(lines, "Summary Statistics:") = 0 THEN <<>>
    ELSE SubSeq(lines, LineIndex(lines, "Summary Statistics:") + 1,
                LineIndex(lines, "Sample Data:") - 2)

\* the lines between "Sample Data:" and the blank line before
\* "Full Table Content:"
SampleOf(lines) ==
    SubSeq(lines, LineIndex(lines, "Sample Data:") + 1,
           LineIndex(lines, "Full Table Content:") - 2)

\* the rows shown by the dump: the lines after "Full Table Content:" and the
\* header, without the "..." line of a shortened dump
DumpRowsOf(lines) ==
    SelectSeq(SubSeq(lines, LineIndex(lines, "Full Table Content:") + 2, Len(lines)),
              LAMBDA line : line # "...")

Reordered(tables) ==
    {[k \in 1..Len(tables) |-> tables[f[k]]] : f \in Permutations(1..Len(tables))}

\* the candidates of a list, as a set
CandidateSet(tables) == {tables[k] : k \in 1..Len(tables)}

\* C26: for every candidate list T and every permutation P of T,
\* _merge_duplicate_tables(P) has as many survivors as
\* _merge_duplicate_tables(T), and the same set of survivors
C26_OrderIndependent ==
    m_pc # "idle" =>
        \A permuted \in Reordered(m_in) :
            /\ Len(MergeDuplicateTables(permuted)) = Len(m_out1)
            /\ CandidateSet(MergeDuplicateTables(permuted)) = CandidateSet(m_out1)


(***************************************************************************)
(* Document handles                                                        *)
(***************************************************************************)
\* C27: every document handle opened by PDFProcessor.process,
\* extract_tables_from_pdf and extract_images_from_pdf is eventually closed,
\* on the paths where a page operation or a detection method raises too
C27_HandlesClosed ==
    /\ p_doc_open ~> ~p_doc_open
    /\ t_doc_open ~> ~t_doc_open
    /\ i_doc_open ~> ~i_doc_open


(***************************************************************************)
(* Properties of database processing                                       *)
(***************************************************************************)
\* C28: the connection opened by _process_sqlite is closed when the call
\* has returned or raised: on success, when a listed table does not exist,
\* and when a query fails part-way through the table loop; and it is open
\* while the call is inside _process_sqlite
C28_ConnectionClosed ==
    /\ b_pc = "done" => ~b_conn_open
    /\ b_pc \in {"names", "tables"} => b_conn_open

\* a call has raised for a table that does not exist after going through
\* another table, with its connection closed
C28_Witness ==
    /\ b_pc = "done"
    /\ b_result.kind = "raise"
    /\ b_k >= 1
    /\ b_k < Len(b_tables)
    /\ TableIndex(b_db, b_tables[b_k + 1]) = 0
    /\ ~b_conn_open

\* C30: for every path for which get_processor returns a DatabaseProcessor
\* (extension .db or .sqlite in any letter case), process dispatches the
\* path to SQLite handling and does not fail with the error that only
\* SQLite databases are supported
C30_FactoryAgrees ==
    (b_pc # "idle" /\ b_proc.cls = "DatabaseProcessor") =>
        /\ IsSqlitePath(b_path)
        /\ b_result # Wrapped("Error processing database", b_path, UnsupportedDatabase)

=============================================================================
